---- MODULE Spec2Model ----
(***************************************************************************)
(* State-machine model of the ingestion -> resolution -> scoring pipeline  *)
(* of ismylandlordshady (backend/pipeline and backend/app/services).       *)
(*                                                                         *)
(*   SpecExtract   one extractor: SocrataClient.fetch_all / fetch_batch    *)
(*                 driving BaseExtractor.extract_and_load over a static    *)
(*                 source dataset, run up to MaxRuns times                 *)
(*   SpecFetch     the same machine started from any offset                *)
(*   SpecPipeline  runner.run_all / scheduler.nightly_refresh              *)
(*   SpecScoring   ScoringService.compute_all_scores and its readers       *)
(***************************************************************************)
EXTENDS Integers, Sequences, FiniteSets, TLC

VARIABLES
    \* ---- extractor run (base.py, socrata.py) ----
    dataset,          \* the source dataset: sequence of raw records
    kind,             \* which upsert the extractor uses: "pk", "natural", "enrich"
    modes,            \* full_refresh argument of every run so far
    start_offset,     \* argument of extract_and_load
    pc,               \* position in extract_and_load
    f_pc,             \* position in fetch_all
    offset,           \* fetch_all: offset of the next page request
    attempts,         \* _fetch_page: attempts made for the current page request
    last_outcome,     \* outcome of the latest attempt
    buffer,           \* fetch_all: records of the current page not yet yielded
    page_len,         \* fetch_all: len(records) of the current page
    batch,            \* fetch_batch: the batch being accumulated
    session,          \* the table as seen inside the open transaction
    committed,        \* the table as committed (what other sessions read)
    batch_count,      \* extract_and_load local
    total_processed,  \* extract_and_load local / return value
    ref_session,      \* a table with a foreign key to the target table (the
                      \* contacts of registrations, the scores of buildings),
                      \* as seen inside the open transaction: the keys of the
                      \* target its rows refer to
    ref_committed,    \* that table as committed
    id_seq,           \* last value handed out by the table's id sequence
    now,              \* clock value used for created_at / updated_at
    runs,             \* number of extract_and_load calls started
    \* ---- history of the run, read only by the properties ----
    yielded,          \* records yielded by fetch_all in this run
    fetched,          \* offsets of the pages fetched successfully in this run
    uncommitted,      \* upserted batches not yet committed
    n_processed,      \* fetched batches handed to the loop body so far
    n_committed,      \* fetched batches whose effect is committed
    run_start,        \* committed table when the run started
    run_start_seq,    \* id_seq when the run started
    snapshot,         \* committed table when the previous run completed
    last_batch,       \* the transformed records of the latest upsert
    pre_upsert,       \* session before the latest upsert
    \* ---- pipeline run (runner.py, jobs/scheduler.py) ----
    p_entry,          \* what was invoked: "nightly_refresh" or "run_all"
    p_pc,             \* position in the invocation
    p_idx,            \* run_all: index in LOAD_ORDER of the current extractor
    p_store,          \* per dataset: commits applied to its table
    p_error,          \* the exception the caller receives ("none": no error)
    p_log,            \* history: stage starts and ends, in order
    p_at_end,         \* history: p_store of a dataset when its stage ended
    \* ---- scoring run (app/services/scoring.py) ----
    buildings,        \* per building: borough, total_units and its fact counts
    links,            \* rows of registration_contacts JOIN hpd_registrations
    building_scores,  \* the table as committed
    owner_portfolios, \* the table as committed
    s_session,        \* building_scores as seen inside the open transaction
    s_pc,             \* position in compute_all_scores
    s_passes,         \* number of compute_all_scores calls started
    good_scores,      \* history: building_scores after the last successful run
    good_portfolios,  \* history: owner_portfolios after the last successful run
    s_steps,          \* history: the steps of the current run done so far
    \* ---- rate limiter (socrata.py, RateLimiter) ----
    rl_rate,          \* self.rate
    rl_tokens,        \* self.tokens, in 1/Sub of a token
    rl_last_refill,   \* self.last_refill, in ticks
    rl_clock,         \* datetime.now(), in ticks of 1/(rate * Sub) second
    rl_pc,            \* position of the caller: "idle" or "sleeping" in acquire
    rl_wake,          \* end of the asyncio.sleep in progress
    rl_times,         \* history: clock at the call and at each return of acquire
    \* ---- identity resolution (EntityResolutionService) ----
    er_contacts,      \* registration_contacts: normalized name, address,
                      \* name_hash and owner_portfolio_id of every contact
    er_portfolios,    \* owner_portfolios: id and name_hash of every portfolio
    er_pc,            \* position in run_entity_resolution
    er_cursor,        \* contacts handled by the running resolution
    er_runs,          \* resolution runs completed
    er_prev,          \* history: owner_portfolio_id of every contact after the
                      \* previous completed run
    er_dirty,         \* history: contacts were loaded since that run
    \* ---- scoring one building, grading one score (ScoringService) ----
    calc_building,    \* the row of the CTE scored for one building
    calc_llc,         \* is_llc of the portfolio owning that building
    calc_score,       \* a score handed to the grade mappings
    calc_row,         \* the row of the CTE final for calc_building, or <<>>
    calc_grades,      \* the grades given to calc_score, or <<>>
    \* ---- one source record through transform_record and the load ----
    tr_extractor,     \* the extractor handling the record
    tr_record,        \* the source record
    tr_pc,            \* "raw", "transformed", "stored" or "skipped"
    tr_result,        \* what transform_record returned, <<>> for None
    tr_table,         \* the rows of the extractor's table
    \* ---- cache (app/cache.py, app/services/cached.py) ----
    c_cache,          \* InMemoryCache._cache in insertion order: key, value
                      \* and expires_at of every entry
    c_max_size,       \* InMemoryCache._max_size
    c_now,            \* datetime.utcnow(), in seconds
    c_data,           \* what the underlying service returns for each building
    c_last,           \* history: the operation just performed and its result
    c_live            \* history: for each key the last set of it that no
                      \* later delete, clear or eviction has undone

extractVars == <<dataset, kind, modes, start_offset, pc, f_pc, offset,
                 attempts, last_outcome, buffer, page_len, batch, session,
                 committed, ref_session, ref_committed, batch_count,
                 total_processed, id_seq, now, runs,
                 yielded, fetched, uncommitted, n_processed, n_committed,
                 run_start, run_start_seq, snapshot, last_batch, pre_upsert>>

pipeVars == <<p_entry, p_pc, p_idx, p_store, p_error, p_log, p_at_end>>

scoreVars == <<buildings, links, building_scores, owner_portfolios,
               s_session, s_pc, s_passes, good_scores, good_portfolios,
               s_steps>>

limiterVars == <<rl_rate, rl_tokens, rl_last_refill, rl_clock, rl_pc, rl_wake,
                 rl_times>>

resolveVars == <<er_contacts, er_portfolios, er_pc, er_cursor, er_runs,
                 er_prev, er_dirty>>

calcVars == <<calc_building, calc_llc, calc_score, calc_row, calc_grades>>

transformVars == <<tr_extractor, tr_record, tr_pc, tr_result, tr_table>>

cacheVars == <<c_cache, c_max_size, c_now, c_data, c_last, c_live>>

vars == <<extractVars, pipeVars, scoreVars, limiterVars, resolveVars,
          calcVars, transformVars, cacheVars>>

notExtract == <<pipeVars, scoreVars, limiterVars, resolveVars, calcVars,
    transformVars,
    cacheVars>>
notPipe == <<extractVars, scoreVars, limiterVars, resolveVars, calcVars,
    transformVars,
    cacheVars>>
notScore == <<extractVars, pipeVars, limiterVars, resolveVars, calcVars,
    transformVars,
    cacheVars>>
notLimiter == <<extractVars, pipeVars, scoreVars, resolveVars, calcVars,
    transformVars,
    cacheVars>>
notResolve == <<extractVars, pipeVars, scoreVars, limiterVars, calcVars,
    transformVars,
    cacheVars>>
notCalc == <<extractVars, pipeVars, scoreVars, limiterVars, resolveVars,
    transformVars,
    cacheVars>>
notTransform == <<extractVars, pipeVars, scoreVars, limiterVars, resolveVars,
    calcVars,
    cacheVars>>

notCache == <<extractVars, pipeVars, scoreVars, limiterVars, resolveVars,
    calcVars, transformVars>>

-----------------------------------------------------------------------------
\* Bounds of the model
PageSize == 4        \* settings.socrata_page_size, scaled down
BatchSize == 2       \* BaseExtractor.batch_size, scaled down
MaxBatches == 11     \* longest dataset, in batches
NumKeys == 2         \* distinct natural keys in the source
MaxRuns == 2         \* extract_and_load calls per behaviour

\* Program constants
commit_interval == 10
MaxAttempts == 5
Null == 0

MaxRecords == BatchSize * MaxBatches
Period == BatchSize + 1
Keys == 1..NumKeys
Kinds == {"pk", "natural", "enrich"}

\* the full_refresh argument of the current run
full_refresh == modes[runs]

Min(a, b) == IF a < b THEN a ELSE b
Max(a, b) == IF a > b THEN a ELSE b

-----------------------------------------------------------------------------
\* The canonical store: one table, keyed by the conflict key of the extractor

NoRow == [present |-> FALSE, f1 |-> Null, f2 |-> Null, id |-> 0, ts |-> 0,
          other |-> Null]
EmptyTable == [k \in Keys |-> NoRow]
\* f1, f2: columns the transform of the extractor supplies; id: the serial
\* id; ts: created_at / updated_at; other: a column only another component
\* writes (owner_portfolio_id of a contact, the parcel fields of a building)
Row(a, b, i, t, o) ==
    [present |-> TRUE, f1 |-> a, f2 |-> b, id |-> i, ts |-> t, other |-> o]

\* A source dataset of n records. The identifying field is missing (key 0)
\* in every record whose index is pattern.skip modulo Period, and in every
\* record when pattern.stride is 0; the other records cycle through the
\* first pattern.stride keys. f1 is always supplied and differs from record
\* to record, f2 is missing in every even record.
RawRecord(pattern, i) ==
    [key |-> IF pattern.stride = 0 \/ i % Period = pattern.skip
             THEN 0
             ELSE ((i - 1) % pattern.stride) + 1,
     f1  |-> i,
     f2  |-> IF i % 2 = 0 THEN Null ELSE i]

MakeDataset(pattern, n) == [i \in 1..n |-> RawRecord(pattern, i)]

\* The source API: $limit/$offset over a static dataset
Page(off) ==
    IF off >= Len(dataset) THEN <<>>
    ELSE SubSeq(dataset, off + 1, Min(off + PageSize, Len(dataset)))

-----------------------------------------------------------------------------
\* transform_record: None (skip) when the identifying field is missing
Transformable(r) == r.key # 0

TransformBatch(rs) == SelectSeq(rs, Transformable)

\* the dict `seen` of _upsert_batch: insertion order of first occurrence,
\* value of the last occurrence
DictPutFirst(d, r) ==
    IF \E i \in DOMAIN d : d[i].key = r.key THEN d ELSE Append(d, r)

DictPut(d, r) ==
    IF \E i \in DOMAIN d : d[i].key = r.key
    THEN [i \in DOMAIN d |-> IF d[i].key = r.key THEN r ELSE d[i]]
    ELSE Append(d, r)

RECURSIVE DedupInto(_, _)
DedupInto(d, rs) ==
    IF rs = <<>> THEN d ELSE DedupInto(DictPut(d, Head(rs)), Tail(rs))

Dedup(rs) == DedupInto(<<>>, rs)

\* as below, but the enrichment inserts the row it does not find
UpsertRowOrInsert(knd, table, r, idv, t) ==
    CASE knd = "pk" ->
           [table EXCEPT ![r.key] = Row(r.f1, r.f2, 0, t, Null)]
      [] knd = "natural" ->
           [table EXCEPT ![r.key] = Row(r.f1, r.f2, idv, t, Null)]
      [] knd = "enrich" ->
           [table EXCEPT ![r.key] =
               Row(IF r.f1 # Null THEN r.f1 ELSE table[r.key].f1,
                   IF r.f2 # Null THEN r.f2 ELSE table[r.key].f2,
                   table[r.key].id, t, table[r.key].other)]

\* Effect of one row of the statement executed by _upsert_batch.
\*   "pk"      INSERT .. ON CONFLICT (primary key) DO UPDATE SET every
\*             non-key column = EXCLUDED.column (created_at included; a
\*             column the records do not carry is EXCLUDED as its default,
\*             NULL)
\*   "natural" the same with the conflict key overridden to the natural key,
\*             so the serial id is a non-key column and is overwritten by
\*             EXCLUDED.id, the value just drawn from the sequence
\*   "enrich"  UPDATE .. SET f = COALESCE(:f, f), updated_at = NOW()
\*             WHERE key = :key  (PLUTOExtractor)
UpsertRow(knd, table, r, idv, t) ==
    CASE knd = "pk" ->
           [table EXCEPT ![r.key] = Row(r.f1, r.f2, 0, t, Null)]
      [] knd = "natural" ->
           [table EXCEPT ![r.key] = Row(r.f1, r.f2, idv, t, Null)]
      [] knd = "enrich" ->
           IF table[r.key].present
           THEN [table EXCEPT ![r.key] =
                    Row(IF r.f1 # Null THEN r.f1 ELSE table[r.key].f1,
                        IF r.f2 # Null THEN r.f2 ELSE table[r.key].f2,
                        table[r.key].id, t, table[r.key].other)]
           ELSE table

SeqAfter(knd, seq, n) == IF knd = "natural" THEN seq + n ELSE seq

RECURSIVE ApplyRows(_, _, _, _, _)
ApplyRows(knd, table, rs, seq, t) ==
    IF rs = <<>> THEN table
    ELSE ApplyRows(knd, UpsertRow(knd, table, Head(rs), seq + 1, t),
                   Tail(rs), SeqAfter(knd, seq, 1), t)

\* _upsert_batch
UpsertBatch(knd, table, records, seq, t) ==
    ApplyRows(knd, table, Dedup(records), seq, t)

\* batch_count % commit_interval == 0
ShouldCommitNever(bc) == FALSE

ShouldCommit(bc) == bc % commit_interval = 0

\* What reaches the committed store when an exception leaves the
\* `async with AsyncSessionLocal()` block: nothing of the open transaction
OnErrorCommit(store, open) == open

OnError(store, open) == store

\* fetch_all stops after a page shorter than the page size
LastPageLax(n) == n <= PageSize

LastPage(n) == n < PageSize

\* stop_after_attempt(5)
MayRetryAlways(outcome, n) == n < MaxAttempts

MayRetry(outcome, n) == outcome = "transient" /\ n < MaxAttempts

-----------------------------------------------------------------------------
\* The scoring engine: score_sql, _compute_percentiles,
\* compute_portfolio_scores. Scores are fixed-point numbers counted in
\* 1/Scale of a point; stored scores are rounded to 1/100 of a point.

NumBuildings == 2    \* buildings in the store
NumPortfolios == 2   \* owner portfolios in the store
MaxViolations == 2   \* class C violations a building collects
MaxPasses == 2       \* compute_all_scores calls per behaviour

Scale == 100 * 100
Unset == -1

Bbls == 1..NumBuildings
Portfolios == 1..NumPortfolios

RECURSIVE SumOver(_, _)
SumOver(f, S) ==
    IF S = {} THEN 0
    ELSE LET x == CHOOSE x \in S : TRUE IN f[x] + SumOver(f, S \ {x})

\* GREATEST(COALESCE(total_units, 1), 1)
Units(b) == IF b.total_units = Null THEN 1 ELSE Max(b.total_units, 1)

\* the cap of 100 applied to the points per unit, before the scaling by 10
ViolationScoreCapPerUnit(b) ==
    Min(((b.class_c * 10 + b.class_b * 5 + b.class_a) * Scale) \div Units(b),
        100 * Scale) * 10

\* LEAST(((class_c * 10 + class_b * 5 + class_a)::float / units) * 10, 100)
ViolationScore(b) ==
    Min(((b.class_c * 10 + b.class_b * 5 + b.class_a) * 10 * Scale) \div Units(b),
        100 * Scale)

\* LEAST((total_complaints::float / units) * 20, 100)
ComplaintsScore(b) ==
    Min((b.total_complaints * 20 * Scale) \div Units(b), 100 * Scale)

\* LEAST((total_evictions::float / units) * 50, 100)
EvictionScore(b) ==
    Min((b.total_evictions * 50 * Scale) \div Units(b), 100 * Scale)

\* CTE portfolio_buildings: COUNT(DISTINCT hr.bbl) per portfolio
PortfolioBuildings(lk, p) ==
    Cardinality({lk[i].bbl : i \in {j \in DOMAIN lk : lk[j].pid = p}})

\* CTE ownership_info: MAX(op.is_llc), MAX(pb.total_buildings) per bbl
OwnersOf(lk, bbl) == {lk[i].pid : i \in {j \in DOMAIN lk : lk[j].bbl = bbl}}

SetMax(S) == IF S = {} THEN 0 ELSE CHOOSE x \in S : \A y \in S : y <= x

IsLlc(lk, ports, bbl) == SetMax({ports[p].is_llc : p \in OwnersOf(lk, bbl)})

TotalBuildings(lk, bbl) ==
    SetMax({PortfolioBuildings(lk, p) : p \in OwnersOf(lk, bbl)})

SizeBonus(n) ==
    IF n >= 100 THEN 70
    ELSE IF n >= 50 THEN 50
    ELSE IF n >= 20 THEN 30
    ELSE IF n >= 10 THEN 15
    ELSE 0

OwnershipScore(lk, ports, bbl) ==
    Min((IF IsLlc(lk, ports, bbl) = 1 THEN 30 ELSE 0)
            + SizeBonus(TotalBuildings(lk, bbl)), 100) * Scale

\* CASE WHEN avg_resolution_days IS NULL OR avg_resolution_days <= 30 THEN 0
\*      ELSE LEAST((avg_resolution_days - 30) * 2, 100)
ResolutionScore(b) ==
    IF b.avg_resolution_days = Null \/ b.avg_resolution_days <= 30 THEN 0
    ELSE Min((b.avg_resolution_days - 30) * 2, 100) * Scale

\* CTE final: the weighted sum, capped at 100
OverallScore(lk, ports, bld, bbl) ==
    Min((ViolationScore(bld[bbl]) * 30 + ComplaintsScore(bld[bbl]) * 20
           + EvictionScore(bld[bbl]) * 25
           + OwnershipScore(lk, ports, bbl) * 15
           + ResolutionScore(bld[bbl]) * 10) \div 100,
        100 * Scale)

\* ROUND(x::numeric, 2), in 1/100 of a point
Round2(x) == (x + Scale \div 200) \div (Scale \div 100)

\* the boundaries belong to the better grade
GradeClosed(x) ==
    IF x <= 20 * Scale THEN "A"
    ELSE IF x <= 40 * Scale THEN "B"
    ELSE IF x <= 60 * Scale THEN "C"
    ELSE IF x <= 80 * Scale THEN "D"
    ELSE "F"

\* the CASE of the INSERT and of compute_portfolio_scores
Grade(x) ==
    IF x < 20 * Scale THEN "A"
    ELSE IF x < 40 * Scale THEN "B"
    ELSE IF x < 60 * Scale THEN "C"
    ELSE IF x < 80 * Scale THEN "D"
    ELSE "F"

\* _score_to_grade
ScoreToGrade(score) ==
    IF score < 20 * Scale THEN "A"
    ELSE IF score < 40 * Scale THEN "B"
    ELSE IF score < 60 * Scale THEN "C"
    ELSE IF score < 80 * Scale THEN "D"
    ELSE "F"

NoScore == [present |-> FALSE, violation_score |-> 0, overall_score |-> 0,
            grade |-> "", percentile_city |-> Unset,
            percentile_borough |-> Unset]

\* the rows score_sql inserts: one per building, percentiles not set
ScoreRows(lk, ports, bld) ==
    [bbl \in Bbls |->
        [present |-> TRUE,
         violation_score |-> Round2(ViolationScore(bld[bbl])),
         overall_score |-> Round2(OverallScore(lk, ports, bld, bbl)),
         grade |-> Grade(OverallScore(lk, ports, bld, bbl)),
         percentile_city |-> Unset,
         percentile_borough |-> Unset]]

\* PERCENT_RANK() OVER (ORDER BY overall_score DESC) * 100 within the
\* partition S: (rank - 1) / (rows - 1), 0 for a partition of one row
PercentRank(scores, S, bbl) ==
    IF Cardinality(S) <= 1 THEN 0
    ELSE (Cardinality({o \in S : scores[o].overall_score
                                    > scores[bbl].overall_score})
             * 100 * Scale) \div (Cardinality(S) - 1)

\* _compute_percentiles
WithPercentiles(scores, bld) ==
    LET rows == {bbl \in Bbls : scores[bbl].present} IN
    [bbl \in Bbls |->
        IF ~scores[bbl].present THEN scores[bbl]
        ELSE [scores[bbl] EXCEPT
                 !.percentile_city = PercentRank(scores, rows, bbl),
                 !.percentile_borough =
                     PercentRank(scores,
                                 {o \in rows : bld[o].borough = bld[bbl].borough},
                                 bbl)]]

\* compute_portfolio_scores: AVG(bs.overall_score) over the rows of
\* registration_contacts JOIN hpd_registrations JOIN building_scores of the
\* portfolio; a portfolio without such a row is not updated
JoinRows(lk, scores, p) ==
    {i \in DOMAIN lk : lk[i].pid = p /\ scores[lk[i].bbl].present}

AvgScore(lk, scores, p) ==
    (SumOver([i \in DOMAIN lk |-> scores[lk[i].bbl].overall_score],
             JoinRows(lk, scores, p)) * (Scale \div 100))
        \div Cardinality(JoinRows(lk, scores, p))

PortfolioScores(lk, scores, ports) ==
    [p \in Portfolios |->
        IF JoinRows(lk, scores, p) = {} THEN ports[p]
        ELSE [ports[p] EXCEPT
                 !.portfolio_score = AvgScore(lk, scores, p),
                 !.portfolio_grade = Grade(AvgScore(lk, scores, p))]]

\* EntityResolutionService.update_portfolio_stats: the aggregates of every
\* portfolio are recomputed from the contacts mapped to it
PortfolioStats(lk, ports) ==
    [p \in Portfolios |->
        [ports[p] EXCEPT !.total_buildings = PortfolioBuildings(lk, p)]]

\* no scoring run under observation
ScoreIdle ==
    /\ buildings = <<>>
    /\ links = <<>>
    /\ building_scores = <<>>
    /\ owner_portfolios = <<>>
    /\ s_session = <<>>
    /\ s_pc = "idle"
    /\ s_passes = 0
    /\ good_scores = <<>>
    /\ good_portfolios = <<>>
    /\ s_steps = <<>>

-----------------------------------------------------------------------------
\* The pipeline: datasets and stages

\* runner.LOAD_ORDER
LOAD_ORDER == <<"buildings", "hpd_registrations", "registration_contacts",
                "hpd_violations", "complaints_311", "dob_violations",
                "evictions">>

\* runner.EXTRACTORS: the datasets an extractor is registered for
EXTRACTORS == {LOAD_ORDER[i] : i \in DOMAIN LOAD_ORDER}

\* the tables extractors load; PLUTOExtractor is exported by
\* pipeline.extractors but not registered in EXTRACTORS
Tables == EXTRACTORS \cup {"pluto"}

\* no pipeline invocation under observation
PipeIdle ==
    /\ p_entry = "none"
    /\ p_pc = "idle"
    /\ p_idx = 0
    /\ p_store = [t \in Tables |-> 0]
    /\ p_error = "none"
    /\ p_log = <<>>
    /\ p_at_end = [t \in Tables |-> 0]

\* no rate limiter under observation
LimiterIdle ==
    /\ rl_rate = 0
    /\ rl_tokens = 0
    /\ rl_last_refill = 0
    /\ rl_clock = 0
    /\ rl_pc = "idle"
    /\ rl_wake = 0
    /\ rl_times = <<>>

\* no identity resolution under observation
ResolveIdle ==
    /\ er_contacts = <<>>
    /\ er_portfolios = <<>>
    /\ er_pc = "idle"
    /\ er_cursor = 0
    /\ er_runs = 0
    /\ er_prev = <<>>
    /\ er_dirty = FALSE

\* no single building or score under observation
CalcIdle ==
    /\ calc_building = <<>>
    /\ calc_llc = 0
    /\ calc_score = 0
    /\ calc_row = <<>>
    /\ calc_grades = <<>>

\* no single record under observation
TransformIdle ==
    /\ tr_extractor = ""
    /\ tr_record = <<>>
    /\ tr_pc = "idle"
    /\ tr_result = <<>>
    /\ tr_table = {}

\* no cache under observation
CacheIdle ==
    /\ c_cache = <<>>
    /\ c_max_size = 0
    /\ c_now = 0
    /\ c_data = <<>>
    /\ c_last = <<>>
    /\ c_live = <<>>

-----------------------------------------------------------------------------
\* Initial states of an extractor

\* skip = Period: no record of the cycle lacks its identifying field
Patterns == [skip : 0..Period, stride : 0..NumKeys]

\* the referencing table before the first run: one row for each stored row
\* of the target table
Referencing(table) == {k \in Keys : table[k].present}

\* the table before the first run: rows loaded earlier for the keys 1..n
InitialTable(knd, n) ==
    [k \in Keys |-> IF k <= n
                    THEN Row(90 + k, 95 + k, IF knd = "natural" THEN k ELSE 0, 0,
                             70 + k)
                    ELSE NoRow]

InitRun(ds, knd, fr, so, n) ==
    /\ dataset = ds
    /\ kind = knd
    /\ modes = <<fr>>
    /\ start_offset = so
    /\ pc = "start"
    /\ f_pc = "idle"
    /\ offset = so
    /\ attempts = 0
    /\ last_outcome = "none"
    /\ buffer = <<>>
    /\ page_len = 0
    /\ batch = <<>>
    /\ session = InitialTable(knd, n)
    /\ committed = InitialTable(knd, n)
    /\ ref_session = Referencing(InitialTable(knd, n))
    /\ ref_committed = Referencing(InitialTable(knd, n))
    /\ batch_count = 0
    /\ total_processed = 0
    /\ id_seq = IF knd = "natural" THEN n ELSE 0
    /\ now = 1
    /\ runs = 1
    /\ yielded = <<>>
    /\ fetched = <<>>
    /\ uncommitted = 0
    /\ n_processed = 0
    /\ n_committed = 0
    /\ run_start = InitialTable(knd, n)
    /\ run_start_seq = IF knd = "natural" THEN n ELSE 0
    /\ snapshot = InitialTable(knd, n)
    /\ last_batch = <<>>
    /\ pre_upsert = InitialTable(knd, n)

\* no extractor under observation
ExtractIdle == InitRun(<<>>, "pk", FALSE, 0, 0)

\* dataset lengths: everything up to a page and a batch, and the two longest,
\* which reach the periodic commit
Sizes == (0..(PageSize + BatchSize)) \cup {MaxRecords - 1, MaxRecords}

InitExtract ==
    /\ \E p \in Patterns, n \in Sizes, knd \in Kinds, fr \in BOOLEAN,
          rows \in {1, NumKeys} :
           InitRun(MakeDataset(p, n), knd, fr, 0, rows)
    /\ PipeIdle
    /\ ScoreIdle
    /\ LimiterIdle
    /\ ResolveIdle
    /\ CalcIdle
    /\ TransformIdle
    /\ CacheIdle

-----------------------------------------------------------------------------
\* extract_and_load, fetch_batch, fetch_all, _fetch_page

fetchState == <<f_pc, offset, attempts, last_outcome, buffer, page_len,
                yielded, fetched>>
txnState == <<session, committed, ref_session, ref_committed, id_seq,
              uncommitted, n_committed, last_batch, pre_upsert>>
runArgs == <<dataset, kind, modes, start_offset, now, runs,
             run_start, run_start_seq, snapshot>>

\* `async with AsyncSessionLocal()`, optional TRUNCATE .. CASCADE (which
\* also empties every table with a foreign key to the target), first pull on
\* the fetch_batch generator
BeginRun ==
    /\ UNCHANGED notExtract
    /\ pc = "start"
    /\ session' = IF full_refresh THEN EmptyTable ELSE session
    /\ ref_session' = IF full_refresh THEN {} ELSE ref_session
    /\ UNCHANGED ref_committed
    /\ pc' = "fetch"
    /\ f_pc' = "request"
    /\ UNCHANGED <<offset, attempts, last_outcome, buffer, page_len, yielded,
                   fetched, batch, committed, batch_count, total_processed,
                   id_seq, uncommitted, n_processed, n_committed, last_batch,
                   pre_upsert>>
    /\ UNCHANGED runArgs

\* an exception leaves extract_and_load: the session is closed
Abort(open) ==
    /\ pc' = "failed"
    /\ committed' = OnError(committed, open)
    /\ session' = OnError(committed, open)
    /\ ref_committed' = OnError(ref_committed, ref_session)
    /\ ref_session' = OnError(ref_committed, ref_session)

\* _truncate_table raises: the statement is handed to session.execute as a
\* plain string, which SQLAlchemy 2 rejects, and the database may refuse it
TruncateRaises ==
    /\ UNCHANGED notExtract
    /\ pc = "start" /\ full_refresh
    /\ Abort(session)
    /\ UNCHANGED <<batch, batch_count, total_processed, id_seq, uncommitted,
                   n_processed, n_committed, last_batch, pre_upsert>>
    /\ UNCHANGED fetchState
    /\ UNCHANGED runArgs

\* one attempt of _fetch_page that returns response.json()
FetchPageOk ==
    /\ UNCHANGED notExtract
    /\ pc = "fetch" /\ f_pc = "request"
    /\ attempts' = attempts + 1
    /\ last_outcome' = "ok"
    /\ fetched' = Append(fetched, offset)
    /\ buffer' = Page(offset)
    /\ page_len' = Len(Page(offset))
    /\ f_pc' = IF Page(offset) = <<>> THEN "finished" ELSE "yield"
    /\ UNCHANGED <<pc, offset, yielded, batch, batch_count, total_processed,
                   n_processed>>
    /\ UNCHANGED txnState
    /\ UNCHANGED runArgs

\* one attempt of _fetch_page that raises: httpx.HTTPStatusError or
\* httpx.RequestError ("transient"), or any other exception, such as the
\* ValueError of response.json() ("malformed")
FetchPageRaises(outcome) ==
    /\ UNCHANGED notExtract
    /\ pc = "fetch" /\ f_pc = "request"
    /\ attempts' = attempts + 1
    /\ last_outcome' = outcome
    /\ IF MayRetry(outcome, attempts + 1)
       THEN /\ UNCHANGED <<pc, f_pc, session, committed, ref_session,
                         ref_committed>>
       ELSE /\ f_pc' = "error"
            /\ Abort(session)
    /\ UNCHANGED <<offset, buffer, page_len, yielded, fetched, batch,
                   batch_count, total_processed, id_seq, uncommitted,
                   n_processed, n_committed, last_batch, pre_upsert>>
    /\ UNCHANGED runArgs

FetchPageTransient == FetchPageRaises("transient")

FetchPageMalformed == FetchPageRaises("malformed")

\* fetch_all yields one record, fetch_batch appends it to its batch and
\* yields the batch when it is full
YieldRecord ==
    /\ UNCHANGED notExtract
    /\ pc = "fetch" /\ f_pc = "yield" /\ buffer # <<>>
    /\ yielded' = Append(yielded, Head(buffer))
    /\ batch' = Append(batch, Head(buffer))
    /\ buffer' = Tail(buffer)
    /\ IF Tail(buffer) = <<>>
       THEN /\ offset' = offset + PageSize
            /\ f_pc' = IF LastPage(page_len) THEN "finished" ELSE "request"
            /\ attempts' = 0
            /\ last_outcome' = "none"
       ELSE UNCHANGED <<offset, f_pc, attempts, last_outcome>>
    /\ pc' = IF Len(batch) + 1 >= BatchSize THEN "process" ELSE "fetch"
    /\ UNCHANGED <<page_len, fetched, batch_count, total_processed,
                   n_processed>>
    /\ UNCHANGED txnState
    /\ UNCHANGED runArgs

\* fetch_all is exhausted: fetch_batch yields the remainder, if any, and the
\* loop of extract_and_load ends
FetchExhausted ==
    /\ UNCHANGED notExtract
    /\ pc = "fetch" /\ f_pc = "finished"
    /\ pc' = IF batch # <<>> THEN "process" ELSE "final_commit"
    /\ UNCHANGED <<batch, batch_count, total_processed, n_processed>>
    /\ UNCHANGED fetchState
    /\ UNCHANGED txnState
    /\ UNCHANGED runArgs

\* the loop body: transform every record, upsert the batch if anything is
\* left of it
ProcessBatch ==
    /\ UNCHANGED notExtract
    /\ pc = "process"
    /\ n_processed' = n_processed + 1
    /\ batch' = <<>>
    /\ LET transformed == TransformBatch(batch) IN
       IF transformed # <<>>
       THEN /\ pre_upsert' = session
            /\ last_batch' = transformed
            /\ session' = UpsertBatch(kind, session, transformed, id_seq, now)
            /\ id_seq' = SeqAfter(kind, id_seq, Len(Dedup(transformed)))
            /\ total_processed' = total_processed + Len(transformed)
            /\ batch_count' = batch_count + 1
            /\ uncommitted' = uncommitted + 1
            /\ pc' = IF ShouldCommit(batch_count + 1) THEN "commit" ELSE "fetch"
       ELSE /\ pc' = "fetch"
            /\ UNCHANGED <<pre_upsert, last_batch, session, id_seq,
                           total_processed, batch_count, uncommitted>>
    /\ UNCHANGED <<committed, ref_session, ref_committed, n_committed>>
    /\ UNCHANGED fetchState
    /\ UNCHANGED runArgs

\* a statement of _upsert_batch raises; PLUTOExtractor executes one UPDATE
\* per record, so some of them may already have been executed
UpsertRaises ==
    /\ UNCHANGED notExtract
    /\ pc = "process"
    /\ TransformBatch(batch) # <<>>
    /\ LET rows == Dedup(TransformBatch(batch)) IN
       \E j \in 0..(IF kind = "enrich" THEN Len(rows) - 1 ELSE 0) :
           Abort(ApplyRows(kind, session, SubSeq(rows, 1, j), id_seq, now))
    /\ UNCHANGED <<batch, batch_count, total_processed, id_seq, uncommitted,
                   n_processed, n_committed, last_batch, pre_upsert>>
    /\ UNCHANGED fetchState
    /\ UNCHANGED runArgs

\* session.commit() inside the loop
Commit ==
    /\ UNCHANGED notExtract
    /\ pc = "commit"
    /\ committed' = session
    /\ ref_committed' = ref_session
    /\ uncommitted' = 0
    /\ n_committed' = n_processed
    /\ pc' = "fetch"
    /\ UNCHANGED <<batch, batch_count, total_processed, n_processed, session,
                   ref_session, id_seq, last_batch, pre_upsert>>
    /\ UNCHANGED fetchState
    /\ UNCHANGED runArgs

\* session.commit() after the loop
FinalCommit ==
    /\ UNCHANGED notExtract
    /\ pc = "final_commit"
    /\ committed' = session
    /\ ref_committed' = ref_session
    /\ uncommitted' = 0
    /\ n_committed' = n_processed
    /\ pc' = "done"
    /\ UNCHANGED <<batch, batch_count, total_processed, n_processed, session,
                   ref_session, id_seq, last_batch, pre_upsert>>
    /\ UNCHANGED fetchState
    /\ UNCHANGED runArgs

\* session.commit() raises
CommitRaises ==
    /\ UNCHANGED notExtract
    /\ pc \in {"commit", "final_commit"}
    /\ Abort(session)
    /\ UNCHANGED <<batch, batch_count, total_processed, id_seq, uncommitted,
                   n_processed, n_committed, last_batch, pre_upsert>>
    /\ UNCHANGED fetchState
    /\ UNCHANGED runArgs

\* the task running extract_and_load is cancelled: CancelledError is raised
\* at the await it is suspended in (opening the session or truncating, a page
\* request, the statements of _upsert_batch, a commit) and leaves the
\* `async with` block; no code of the run catches it
Cancel ==
    /\ UNCHANGED notExtract
    /\ \/ pc \in {"start", "commit", "final_commit"}
       \/ pc = "fetch" /\ f_pc = "request"
       \/ pc = "process" /\ TransformBatch(batch) # <<>>
    /\ pc' = IF pc = "process" THEN "cancelled_mid_batch" ELSE "cancelled"
    /\ committed' = OnError(committed, session)
    /\ session' = OnError(committed, session)
    /\ ref_committed' = OnError(ref_committed, ref_session)
    /\ ref_session' = OnError(ref_committed, ref_session)
    /\ UNCHANGED <<batch, batch_count, total_processed, id_seq, uncommitted,
                   n_processed, n_committed, last_batch, pre_upsert>>
    /\ UNCHANGED fetchState
    /\ UNCHANGED runArgs

\* the same extractor is run again over the same source, incrementally
RunAgain ==
    /\ UNCHANGED notExtract
    /\ pc = "done" /\ runs < MaxRuns
    /\ runs' = runs + 1
    /\ now' = now + 1
    /\ modes' = Append(modes, FALSE)
    /\ snapshot' = committed
    /\ run_start' = committed
    /\ run_start_seq' = id_seq
    /\ pc' = "start"
    /\ f_pc' = "idle"
    /\ offset' = start_offset
    /\ attempts' = 0
    /\ last_outcome' = "none"
    /\ buffer' = <<>>
    /\ page_len' = 0
    /\ batch' = <<>>
    /\ batch_count' = 0
    /\ total_processed' = 0
    /\ yielded' = <<>>
    /\ fetched' = <<>>
    /\ uncommitted' = 0
    /\ n_processed' = 0
    /\ n_committed' = 0
    /\ last_batch' = <<>>
    /\ pre_upsert' = committed
    /\ UNCHANGED <<dataset, kind, start_offset, session, committed,
                   ref_session, ref_committed, id_seq>>

NextExtract ==
    \/ BeginRun
    \/ TruncateRaises
    \/ FetchPageOk
    \/ FetchPageTransient
    \/ FetchPageMalformed
    \/ YieldRecord
    \/ FetchExhausted
    \/ ProcessBatch
    \/ UpsertRaises
    \/ Commit
    \/ FinalCommit
    \/ CommitRaises
    \/ Cancel
    \/ RunAgain

SpecExtract == InitExtract /\ [][NextExtract]_vars

\* the same machine, resumed from any offset of a source with distinct keys
InitFetch ==
    /\ \E n \in 0..MaxRecords, so \in 0..(MaxRecords + 1), fr \in BOOLEAN :
           InitRun(MakeDataset([skip |-> Period, stride |-> NumKeys], n),
                   "pk", fr, so, 1)
    /\ PipeIdle
    /\ ScoreIdle
    /\ LimiterIdle
    /\ ResolveIdle
    /\ CalcIdle
    /\ TransformIdle
    /\ CacheIdle

SpecFetch == InitFetch /\ [][NextExtract]_vars

-----------------------------------------------------------------------------
\* run_all, run_extractor, run_entity_resolution, run_scoring, nightly_refresh

\* commits one extractor run makes before its final commit, at most
MaxStageCommits == 1

\* run_all: `except Exception: logger.error(..); raise`
OnExtractorErrorContinue == "continue"

OnExtractorError == "raise"

Started(stage) == [ev |-> "start", stage |-> stage]
Ended(stage) == [ev |-> "end", stage |-> stage]
Raised(stage) == [ev |-> "raise", stage |-> stage]

InitPipeline ==
    /\ p_entry \in {"nightly_refresh", "run_all"}
    /\ p_pc = "run_all"
    /\ p_idx = 1
    /\ \E c \in 0..1 :
          /\ p_store = [t \in Tables |-> c]
          /\ p_at_end = [t \in Tables |-> c]
    /\ p_error = "none"
    /\ p_log = <<>>
    /\ ExtractIdle
    /\ ScoreIdle
    /\ LimiterIdle
    /\ ResolveIdle
    /\ CalcIdle
    /\ TransformIdle
    /\ CacheIdle

\* what follows the extractor at index i of LOAD_ORDER
AfterExtractor(i) ==
    IF i < Len(LOAD_ORDER)
    THEN /\ p_idx' = i + 1
         /\ p_pc' = "run_all"
    ELSE /\ p_idx' = i
         /\ p_pc' = IF p_entry = "nightly_refresh" THEN "resolution" ELSE "done"

\* run_all calls run_extractor(name) for the next name of LOAD_ORDER
StartExtractor ==
    /\ p_pc = "run_all"
    /\ p_pc' = "extracting"
    /\ p_log' = Append(p_log, Started(LOAD_ORDER[p_idx]))
    /\ UNCHANGED <<p_entry, p_idx, p_store, p_error, p_at_end>>
    /\ UNCHANGED notPipe

\* the running extractor commits inside its loop
ExtractorCommits ==
    /\ p_pc = "extracting"
    /\ p_store[LOAD_ORDER[p_idx]] - p_at_end[LOAD_ORDER[p_idx]] < MaxStageCommits
    /\ p_store' = [p_store EXCEPT ![LOAD_ORDER[p_idx]] = @ + 1]
    /\ UNCHANGED <<p_entry, p_pc, p_idx, p_error, p_log, p_at_end>>
    /\ UNCHANGED notPipe

\* extract_and_load makes its final commit and returns
ExtractorReturns ==
    /\ p_pc = "extracting"
    /\ p_store' = [p_store EXCEPT ![LOAD_ORDER[p_idx]] = @ + 1]
    /\ p_at_end' = [p_at_end EXCEPT ![LOAD_ORDER[p_idx]] =
                       p_store[LOAD_ORDER[p_idx]] + 1]
    /\ p_log' = Append(p_log, Ended(LOAD_ORDER[p_idx]))
    /\ AfterExtractor(p_idx)
    /\ UNCHANGED <<p_entry, p_error>>
    /\ UNCHANGED notPipe

\* extract_and_load raises: run_all logs and re-raises, nightly_refresh logs
\* and re-raises
ExtractorRaises ==
    /\ p_pc = "extracting"
    /\ p_log' = Append(p_log, Raised(LOAD_ORDER[p_idx]))
    /\ IF OnExtractorError = "raise"
       THEN /\ p_pc' = "failed"
            /\ p_error' = LOAD_ORDER[p_idx]
            /\ UNCHANGED p_idx
       ELSE /\ AfterExtractor(p_idx)
            /\ UNCHANGED p_error
    /\ UNCHANGED <<p_entry, p_store, p_at_end>>
    /\ UNCHANGED notPipe

\* nightly_refresh: await run_entity_resolution()
StartResolution ==
    /\ p_pc = "resolution"
    /\ p_pc' = "resolving"
    /\ p_log' = Append(p_log, Started("entity_resolution"))
    /\ UNCHANGED <<p_entry, p_idx, p_store, p_error, p_at_end>>
    /\ UNCHANGED notPipe

ResolutionReturns ==
    /\ p_pc = "resolving"
    /\ p_pc' = "scoring"
    /\ p_log' = Append(p_log, Ended("entity_resolution"))
    /\ UNCHANGED <<p_entry, p_idx, p_store, p_error, p_at_end>>
    /\ UNCHANGED notPipe

\* nightly_refresh: await run_scoring()
StartScoring ==
    /\ p_pc = "scoring"
    /\ p_pc' = "scoring_run"
    /\ p_log' = Append(p_log, Started("scoring"))
    /\ UNCHANGED <<p_entry, p_idx, p_store, p_error, p_at_end>>
    /\ UNCHANGED notPipe

ScoringReturns ==
    /\ p_pc = "scoring_run"
    /\ p_pc' = "done"
    /\ p_log' = Append(p_log, Ended("scoring"))
    /\ UNCHANGED <<p_entry, p_idx, p_store, p_error, p_at_end>>
    /\ UNCHANGED notPipe

\* resolution or scoring raises: nightly_refresh logs and re-raises
ServiceRaises ==
    /\ p_pc \in {"resolving", "scoring_run"}
    /\ p_error' = IF p_pc = "resolving" THEN "entity_resolution" ELSE "scoring"
    /\ p_pc' = "failed"
    /\ p_log' = Append(p_log, Raised(IF p_pc = "resolving"
                                     THEN "entity_resolution" ELSE "scoring"))
    /\ UNCHANGED <<p_entry, p_idx, p_store, p_at_end>>
    /\ UNCHANGED notPipe

NextPipeline ==
    \/ StartExtractor
    \/ ExtractorCommits
    \/ ExtractorReturns
    \/ ExtractorRaises
    \/ StartResolution
    \/ ResolutionReturns
    \/ StartScoring
    \/ ScoringReturns
    \/ ServiceRaises

SpecPipeline == InitPipeline /\ [][NextPipeline]_vars

-----------------------------------------------------------------------------
\* ScoringService.compute_all_scores and the facts it reads

Building(boro, units, c) ==
    [borough |-> boro, total_units |-> units, class_c |-> c, class_b |-> 0,
     class_a |-> 0, total_complaints |-> 0, total_evictions |-> 0,
     avg_resolution_days |-> Null]

Link(p, bbl) == [pid |-> p, bbl |-> bbl]

\* contacts of portfolio 1 on no building, on building 1 (twice) and on
\* every building, or portfolio 1 on building 1 and portfolio 2 on the last
LinkChoices ==
    {<<>>,
     <<Link(1, 1), Link(1, 1)>> \o [i \in 1..(NumBuildings - 1) |-> Link(1, i + 1)],
     <<Link(1, 1), Link(NumPortfolios, NumBuildings)>>}

\* the store after a successful scoring run over the initial facts: the
\* buildings in one borough or spread over two, with or without unit counts
\* (a count that divides Scale, so that every score is computed exactly)
InitScoring ==
    /\ \E boro \in {[b \in Bbls |-> 1], [b \in Bbls |-> (b % 2) + 1]},
          units \in {[b \in Bbls |-> Null], [b \in Bbls |-> 4]},
          c \in {[b \in Bbls |-> 0], [b \in Bbls |-> IF b = 1 THEN 1 ELSE 0]},
          llc \in 0..1, lk \in LinkChoices :
          LET ports == [p \in Portfolios |->
                           [is_llc |-> IF p = 1 THEN llc ELSE 0,
                            total_buildings |-> PortfolioBuildings(lk, p),
                            portfolio_score |-> Unset,
                            portfolio_grade |-> ""]]
              bld == [b \in Bbls |-> Building(boro[b], units[b], c[b])]
              scores == WithPercentiles(ScoreRows(lk, ports, bld), bld)
          IN /\ buildings = bld
             /\ links = lk
             /\ building_scores = scores
             /\ s_session = scores
             /\ good_scores = scores
             /\ owner_portfolios = PortfolioScores(lk, scores, ports)
             /\ good_portfolios = PortfolioScores(lk, scores, ports)
    /\ s_pc = "idle"
    /\ s_passes = 0
    /\ s_steps = <<>>
    /\ ExtractIdle
    /\ PipeIdle
    /\ LimiterIdle
    /\ ResolveIdle
    /\ CalcIdle
    /\ TransformIdle
    /\ CacheIdle

\* an extractor run loads one more class C violation of a building
ViolationLoaded ==
    /\ UNCHANGED notScore
    /\ UNCHANGED s_steps
    /\ s_pc \in {"idle", "done", "failed"}
    /\ \E b \in Bbls :
          /\ buildings[b].class_c < MaxViolations
          /\ buildings' = [buildings EXCEPT ![b].class_c = @ + 1]
    /\ UNCHANGED <<links, building_scores, owner_portfolios, s_session,
                   s_pc, s_passes, good_scores, good_portfolios>>

\* compute_all_scores is called: `async with AsyncSessionLocal()`
BeginScoring ==
    /\ UNCHANGED notScore
    /\ s_steps' = <<>>
    /\ s_pc \in {"idle", "done", "failed"}
    /\ s_passes < MaxPasses
    /\ s_passes' = s_passes + 1
    /\ s_session' = building_scores
    /\ s_pc' = "truncate"
    /\ UNCHANGED <<buildings, links, building_scores, owner_portfolios,
                   good_scores, good_portfolios>>

\* session.execute(text("TRUNCATE building_scores"))
TruncateScores ==
    /\ UNCHANGED notScore
    /\ s_steps' = Append(s_steps, "truncate")
    /\ s_pc = "truncate"
    /\ s_session' = [bbl \in Bbls |-> NoScore]
    /\ s_pc' = "insert"
    /\ UNCHANGED <<buildings, links, building_scores, owner_portfolios,
                   s_passes, good_scores, good_portfolios>>

\* session.execute(score_sql)
InsertScores ==
    /\ UNCHANGED notScore
    /\ s_steps' = Append(s_steps, "insert")
    /\ s_pc = "insert"
    /\ s_session' = ScoreRows(links, owner_portfolios, buildings)
    /\ s_pc' = "commit_scores"
    /\ UNCHANGED <<buildings, links, building_scores, owner_portfolios,
                   s_passes, good_scores, good_portfolios>>

\* the first session.commit()
CommitScores ==
    /\ UNCHANGED notScore
    /\ s_steps' = Append(s_steps, "commit")
    /\ s_pc = "commit_scores"
    /\ building_scores' = s_session
    /\ s_pc' = "percentiles"
    /\ UNCHANGED <<buildings, links, owner_portfolios, s_session, s_passes,
                   good_scores, good_portfolios>>

\* self._compute_percentiles(session)
ComputePercentiles ==
    /\ UNCHANGED notScore
    /\ s_steps' = Append(s_steps, "percentiles")
    /\ s_pc = "percentiles"
    /\ s_session' = WithPercentiles(s_session, buildings)
    /\ s_pc' = "commit_percentiles"
    /\ UNCHANGED <<buildings, links, building_scores, owner_portfolios,
                   s_passes, good_scores, good_portfolios>>

\* what compute_all_scores does once the session is closed: the portfolio
\* statistics are refreshed, then the portfolios are scored
AfterPercentilesSkipStats == "portfolio_scores"

AfterPercentiles == "portfolio_stats"

\* the second session.commit(); the session is closed
CommitPercentiles ==
    /\ UNCHANGED notScore
    /\ s_steps' = Append(s_steps, "commit")
    /\ s_pc = "commit_percentiles"
    /\ building_scores' = s_session
    /\ s_pc' = AfterPercentiles
    /\ UNCHANGED <<buildings, links, owner_portfolios, s_session, s_passes,
                   good_scores, good_portfolios>>

\* EntityResolutionService().update_portfolio_stats()
UpdatePortfolioStats ==
    /\ UNCHANGED notScore
    /\ s_steps' = Append(s_steps, "portfolio_stats")
    /\ s_pc = "portfolio_stats"
    /\ owner_portfolios' = PortfolioStats(links, owner_portfolios)
    /\ s_pc' = "portfolio_scores"
    /\ UNCHANGED <<buildings, links, building_scores, s_session, s_passes,
                   good_scores, good_portfolios>>

\* self.compute_portfolio_scores(): UPDATE and commit in a session of its
\* own; compute_all_scores returns
ComputePortfolioScores ==
    /\ UNCHANGED notScore
    /\ s_steps' = Append(s_steps, "portfolio_scores")
    /\ s_pc = "portfolio_scores"
    /\ owner_portfolios' =
           PortfolioScores(links, building_scores, owner_portfolios)
    /\ good_portfolios' =
           PortfolioScores(links, building_scores, owner_portfolios)
    /\ good_scores' = building_scores
    /\ s_pc' = "done"
    /\ UNCHANGED <<buildings, links, building_scores, s_session, s_passes>>

\* any statement or commit of the run raises: the open transaction, if any,
\* is rolled back and the exception leaves compute_all_scores
ScoringRaises ==
    /\ UNCHANGED notScore
    /\ s_steps' = <<>>
    /\ s_pc \in {"truncate", "insert", "commit_scores", "percentiles",
                 "commit_percentiles", "portfolio_stats", "portfolio_scores"}
    /\ s_session' = building_scores
    /\ s_pc' = "failed"
    /\ UNCHANGED <<buildings, links, building_scores, owner_portfolios,
                   s_passes, good_scores, good_portfolios>>

NextScoring ==
    \/ ViolationLoaded
    \/ BeginScoring
    \/ TruncateScores
    \/ InsertScores
    \/ CommitScores
    \/ ComputePercentiles
    \/ CommitPercentiles
    \/ UpdatePortfolioStats
    \/ ComputePortfolioScores
    \/ ScoringRaises

SpecScoring == InitScoring /\ [][NextScoring]_vars

\* Scoring runs that complete, over contacts that are reloaded between them.

\* a full-refresh run of the contacts extractor reloads registration_contacts
\* between two scoring runs: the reloaded contacts carry no
\* owner_portfolio_id, so no contact links a portfolio to a building
ContactsReloaded ==
    /\ UNCHANGED notScore
    /\ UNCHANGED s_steps
    /\ s_pc \in {"idle", "done"}
    /\ links # <<>>
    /\ links' = <<>>
    /\ s_pc' = "idle"
    /\ UNCHANGED <<buildings, building_scores, owner_portfolios, s_session,
                   s_passes, good_scores, good_portfolios>>

NextRescoring ==
    \/ ContactsReloaded
    \/ BeginScoring
    \/ TruncateScores
    \/ InsertScores
    \/ CommitScores
    \/ ComputePercentiles
    \/ CommitPercentiles
    \/ UpdatePortfolioStats
    \/ ComputePortfolioScores

SpecRescoring == InitScoring /\ [][NextRescoring]_vars

-----------------------------------------------------------------------------
\* Scoring one building and grading one score: the CTEs computed and final
\* of score_sql applied to one row, and the three grade mappings applied to
\* one score.

\* every whole score and both neighbours of every grade boundary
GradeInputs ==
    {k * Scale : k \in 0..100}
        \cup {k * 20 * Scale + d : k \in 1..4, d \in {-1, 1}}

\* small buildings, and a building of 1000 units whose 4999 complaints put
\* its overall score just below a grade boundary; the unit counts divide
\* Scale, so that every score is computed exactly
BuildingInputs ==
    [borough : {1}, total_units : {Null, 1, 4, 1000}, class_c : {0, 1, 100},
     class_b : {0}, class_a : {0}, total_complaints : {0, 5, 4999},
     total_evictions : {0, 2}, avg_resolution_days : {Null, 30, 80}]

\* the scored building is building 1, registered to portfolio 1
CalcLinks == <<Link(1, 1)>>
CalcPortfolios ==
    [p \in Portfolios |->
        [is_llc |-> IF p = 1 THEN calc_llc ELSE 0,
         total_buildings |-> PortfolioBuildings(CalcLinks, p),
         portfolio_score |-> Unset,
         portfolio_grade |-> ""]]
CalcBuildings == [b \in Bbls |-> calc_building]

InitCalc ==
    /\ calc_building \in BuildingInputs
    /\ calc_llc \in 0..1
    /\ calc_score \in GradeInputs
    /\ calc_row = <<>>
    /\ calc_grades = <<>>
    /\ ExtractIdle
    /\ PipeIdle
    /\ ScoreIdle
    /\ LimiterIdle
    /\ ResolveIdle
    /\ TransformIdle
    /\ CacheIdle

\* the row of the CTE final for calc_building, as the INSERT reads it, and
\* the row of building_scores the INSERT writes from it
ScoreBuilding ==
    /\ UNCHANGED notCalc
    /\ calc_row = <<>>
    /\ calc_row' =
           [violation_score |-> ViolationScore(calc_building),
            overall_score |->
                OverallScore(CalcLinks, CalcPortfolios, CalcBuildings, 1),
            grade |->
                Grade(OverallScore(CalcLinks, CalcPortfolios, CalcBuildings, 1)),
            stored |-> ScoreRows(CalcLinks, CalcPortfolios, CalcBuildings)[1]]
    /\ UNCHANGED <<calc_building, calc_llc, calc_score, calc_grades>>

\* the grade of calc_score as a building score, as a portfolio average and
\* by _score_to_grade
GradeScore ==
    /\ UNCHANGED notCalc
    /\ calc_grades = <<>>
    /\ calc_grades' = [building |-> Grade(calc_score),
                       portfolio |-> Grade(calc_score),
                       legacy |-> ScoreToGrade(calc_score)]
    /\ UNCHANGED <<calc_building, calc_llc, calc_score, calc_row>>

NextCalc ==
    \/ ScoreBuilding
    \/ GradeScore

SpecCalc == InitCalc /\ [][NextCalc]_vars

-----------------------------------------------------------------------------
\* transform_record of the fact and registration extractors, applied to one
\* source record, and the load of what it returns. A raw field is a string,
\* "none" when the record has no such key; a BBL is <<>> when it is None.

Extractors == {"hpd_violations", "dob_violations", "hpd_registrations",
               "registration_contacts", "complaints_311", "evictions"}

Numerals == {"0", "1", "3", "12"}

\* int(v) for the strings int accepts
IntOf(v) ==
    CASE v = "0" -> 0
      [] v = "1" -> 1
      [] v = "3" -> 3
      [] v = "12" -> 12

\* `not v` for a raw field
Falsy(v) == v \in {"none", ""}

\* safe_int: None for a missing, empty or non-numeric value
safe_int(v) == IF v \in Numerals THEN IntOf(v) ELSE Null

\* make_bbl: None when int() raises for one of the components
make_bbl(borough, block, lot) ==
    IF borough \in Numerals /\ block \in Numerals /\ lot \in Numerals
    THEN <<IntOf(borough), IntOf(block), IntOf(lot)>>
    ELSE <<>>

\* record.get("bbl"), None when it is missing or empty
GivenBbl(r) == IF Falsy(r.bbl) THEN <<>> ELSE <<r.bbl>>

\* HPDViolationsExtractor.transform_record
TransformHpdViolation(r) ==
    IF safe_int(r.id) = Null THEN <<>>
    ELSE IF make_bbl(r.boro, r.block, r.lot) = <<>> THEN <<>>
    ELSE [id |-> <<safe_int(r.id)>>, bbl |-> make_bbl(r.boro, r.block, r.lot)]

\* a DOB violation without a BBL is skipped
TransformDobViolationStrict(r) ==
    IF Falsy(r.id) THEN <<>>
    ELSE IF make_bbl(r.boro, r.block, r.lot) = <<>> THEN <<>>
    ELSE [id |-> <<r.id>>, bbl |-> make_bbl(r.boro, r.block, r.lot)]

\* DOBViolationsExtractor.transform_record
TransformDobViolation(r) ==
    IF Falsy(r.id) THEN <<>>
    ELSE [id |-> <<r.id>>, bbl |-> make_bbl(r.boro, r.block, r.lot)]

\* HPDRegistrationsExtractor.transform_record
TransformRegistration(r) ==
    IF safe_int(r.id) = Null THEN <<>>
    ELSE IF make_bbl(r.boro, r.block, r.lot) = <<>> THEN <<>>
    ELSE [id |-> <<safe_int(r.id)>>, bbl |-> make_bbl(r.boro, r.block, r.lot)]

\* Complaints311Extractor.transform_record
TransformComplaint(r) ==
    IF safe_int(r.id) = Null THEN <<>>
    ELSE [id |-> <<safe_int(r.id)>>, bbl |-> GivenBbl(r)]

\* EvictionsExtractor.transform_record
TransformEviction(r) ==
    IF Falsy(r.id) THEN <<>>
    ELSE [id |-> <<r.id>>, bbl |-> GivenBbl(r)]

\* the full name: corporationname, else the name parts, "" when none is given
FullName(r) == IF r.name = "none" THEN "" ELSE r.name

\* RegistrationContactsExtractor.transform_record; the natural key of
\* get_primary_key_columns is (registration_id, contact_type, full_name) and
\* contact_type is record.get("type"), None when the record has none
TransformContact(r) ==
    IF safe_int(r.id) = Null THEN <<>>
    ELSE IF FullName(r) = "" THEN <<>>
    ELSE [id |-> <<safe_int(r.id), r.type, FullName(r)>>]

transform_record(ex, r) ==
    CASE ex = "hpd_violations" -> TransformHpdViolation(r)
      [] ex = "dob_violations" -> TransformDobViolation(r)
      [] ex = "hpd_registrations" -> TransformRegistration(r)
      [] ex = "registration_contacts" -> TransformContact(r)
      [] ex = "complaints_311" -> TransformComplaint(r)
      [] ex = "evictions" -> TransformEviction(r)

\* the bbl column of the extractor's table: nullable=False for the two HPD
\* tables, nullable for complaints_311
BblNullable(ex) == ex = "complaints_311"

\* the tables of DOB violations and evictions have no foreign key on bbl and
\* accept a row without one
OrphanTolerant(ex) == ex \in {"dob_violations", "evictions"}

AcceptsNullBbl(ex) == BblNullable(ex) \/ OrphanTolerant(ex)

RawRecords ==
    [id : {"none", "0", "1", "abc"}, boro : {"none", "1"},
     block : {"none", "12", "abc"}, lot : {"none", "3"},
     bbl : {"none", "", "1000120003"}, name : {"none", "ACME"},
     type : {"none", "Owner"}]

InitTransform ==
    /\ tr_extractor \in Extractors
    /\ tr_record \in RawRecords
    /\ tr_pc = "raw"
    /\ tr_result = <<>>
    /\ tr_table = {}
    /\ ExtractIdle
    /\ PipeIdle
    /\ ScoreIdle
    /\ LimiterIdle
    /\ ResolveIdle
    /\ CalcIdle
    /\ CacheIdle

\* process_batch: transform_record, records that give None are dropped
TransformRecord ==
    /\ UNCHANGED notTransform
    /\ tr_pc = "raw"
    /\ tr_result' = transform_record(tr_extractor, tr_record)
    /\ tr_pc' = IF transform_record(tr_extractor, tr_record) = <<>>
                THEN "skipped" ELSE "transformed"
    /\ UNCHANGED <<tr_extractor, tr_record, tr_table>>

\* _upsert_batch and commit of the transformed record; the insert needs a
\* BBL or a column that accepts NULL
LoadRecord ==
    /\ UNCHANGED notTransform
    /\ tr_pc = "transformed"
    /\ "bbl" \in DOMAIN tr_result =>
           tr_result.bbl # <<>> \/ AcceptsNullBbl(tr_extractor)
    /\ tr_table' = tr_table \cup {tr_result}
    /\ tr_pc' = "stored"
    /\ UNCHANGED <<tr_extractor, tr_record, tr_result>>

NextTransform ==
    \/ TransformRecord
    \/ LoadRecord

SpecTransform == InitTransform /\ [][NextTransform]_vars

-----------------------------------------------------------------------------
\* InMemoryCache. A key is the sequence of the parts that make_cache_key
\* joins with ":"; the cache is the dict _cache in insertion order.

MaxCacheSize == 2    \* largest max_size
MaxCacheClock == 4   \* last second of the clock

TestKeys == {<<"key", 1>>, <<"key", 2>>}
CacheValues == {1, 2}
Ttls == {1, 2}

Entry(k, v, exp) == [key |-> k, value |-> v, expires_at |-> exp]

KeysOf(cache) == {cache[i].key : i \in DOMAIN cache}

\* an entry never expires
ExpiredNever(e, t) == FALSE

\* datetime.utcnow() > expires_at
Expired(e, t) == t > e.expires_at

\* del self._cache[k] / self._cache.pop(k, None)
Without(cache, k) == SelectSeq(cache, LAMBDA e : e.key # k)

\* InMemoryCache.get: the cache it leaves and the value it returns
CacheGet(cache, t, k) ==
    IF k \notin KeysOf(cache) THEN [cache |-> cache, ret |-> Null]
    ELSE LET e == cache[CHOOSE i \in DOMAIN cache : cache[i].key = k] IN
         IF Expired(e, t)
         THEN [cache |-> Without(cache, k), ret |-> Null]
         ELSE [cache |-> cache, ret |-> e.value]

\* the eviction of InMemoryCache.set: at capacity the expired entries go,
\* and if the cache is still at capacity the oldest max_size // 10 entries
Evicted(cache, t, max_size) ==
    IF Len(cache) >= max_size
    THEN LET fresh == SelectSeq(cache, LAMBDA e : ~Expired(e, t)) IN
         IF Len(fresh) >= max_size
         THEN SubSeq(fresh, (max_size \div 10) + 1, Len(fresh))
         ELSE fresh
    ELSE cache

\* self._cache[key] = (value, expires_at): a key of the dict keeps its place
Put(cache, e) ==
    IF e.key \in KeysOf(cache)
    THEN [i \in DOMAIN cache |-> IF cache[i].key = e.key THEN e ELSE cache[i]]
    ELSE Append(cache, e)

\* InMemoryCache.set
CacheSet(cache, t, max_size, k, v, ttl) ==
    Put(Evicted(cache, t, max_size), Entry(k, v, t + ttl))

\* k.startswith(prefix), for keys whose parts have a fixed length
StartsWith(k, prefix) ==
    Len(k) >= Len(prefix) /\ SubSeq(k, 1, Len(prefix)) = prefix

\* InMemoryCache.clear_pattern, pattern given without its trailing '*'
ClearPattern(cache, prefix) ==
    SelectSeq(cache, LAMBDA e : ~StartsWith(e.key, prefix))

NoLive == [value |-> Null, set_at |-> 0, ttl |-> 0]
NoOp == [op |-> "none"]

\* c_live after the cache went from `before` to `after`: an entry that was
\* removed before it expired no longer counts
LiveAfter(live, before, after, t) ==
    [k \in DOMAIN live |->
        IF /\ k \in KeysOf(before) \ KeysOf(after)
           /\ ~(t > live[k].set_at + live[k].ttl)
        THEN NoLive ELSE live[k]]

InitCache ==
    /\ c_cache = <<>>
    /\ c_max_size \in 1..MaxCacheSize
    /\ c_now = 0
    /\ c_data = <<>>
    /\ c_last = NoOp
    /\ c_live = [k \in TestKeys |-> NoLive]
    /\ ExtractIdle
    /\ PipeIdle
    /\ ScoreIdle
    /\ LimiterIdle
    /\ ResolveIdle
    /\ CalcIdle
    /\ TransformIdle

\* a second passes
CacheTick ==
    /\ UNCHANGED notCache
    /\ c_now < MaxCacheClock
    /\ c_now' = c_now + 1
    /\ c_last' = NoOp
    /\ UNCHANGED <<c_cache, c_max_size, c_data, c_live>>

\* await cache.set(key, value, ttl)
SetKey ==
    /\ UNCHANGED notCache
    /\ \E k \in TestKeys, v \in CacheValues, ttl \in Ttls :
          /\ c_cache' = CacheSet(c_cache, c_now, c_max_size, k, v, ttl)
          /\ c_last' = [op |-> "set", key |-> k]
          /\ c_live' =
                 [LiveAfter(c_live, c_cache,
                            CacheSet(c_cache, c_now, c_max_size, k, v, ttl),
                            c_now)
                     EXCEPT ![k] = [value |-> v, set_at |-> c_now, ttl |-> ttl]]
    /\ UNCHANGED <<c_max_size, c_now, c_data>>

\* await cache.get(key)
GetKey ==
    /\ UNCHANGED notCache
    /\ \E k \in TestKeys :
          /\ c_cache' = CacheGet(c_cache, c_now, k).cache
          /\ c_last' = [op |-> "get", key |-> k,
                        ret |-> CacheGet(c_cache, c_now, k).ret]
    /\ UNCHANGED <<c_max_size, c_now, c_data, c_live>>

\* await cache.delete(key)
DeleteKey ==
    /\ UNCHANGED notCache
    /\ \E k \in TestKeys :
          /\ c_cache' = Without(c_cache, k)
          /\ c_last' = [op |-> "delete", key |-> k]
          /\ c_live' = [c_live EXCEPT ![k] = NoLive]
    /\ UNCHANGED <<c_max_size, c_now, c_data>>

\* await cache.clear_pattern("key*")
ClearKeys ==
    /\ UNCHANGED notCache
    /\ c_cache # <<>>
    /\ c_cache' = ClearPattern(c_cache, <<"key">>)
    /\ c_last' = [op |-> "clear"]
    /\ c_live' = [k \in TestKeys |-> NoLive]
    /\ UNCHANGED <<c_max_size, c_now, c_data>>

NextCache ==
    \/ CacheTick
    \/ SetKey
    \/ GetKey
    \/ DeleteKey
    \/ ClearKeys

SpecCache == InitCache /\ [][NextCache]_vars

-----------------------------------------------------------------------------
\* CachedBuildingService over the in-memory cache, and
\* invalidate_building_cache.

MaxDataVersion == 2  \* versions of the data of a building

DefaultMaxSize == 10000
MEDIUM == 300

BblNames == {"1000000001"}
Offsets == {"offset=0", "offset=50"}

BUILDING == <<"building">>
BUILDING_REPORT == <<"building", "report">>
BUILDING_VIOLATIONS == <<"building", "violations">>

\* make_cache_key: the prefix and the arguments that are not None, in order
make_cache_key(prefix, parts) ==
    prefix \o SelectSeq(parts, LAMBDA x : x # "none")

ReportKey(bbl) == make_cache_key(BUILDING_REPORT, <<bbl>>)
ViolationsKey(bbl, off) ==
    make_cache_key(BUILDING_VIOLATIONS, <<bbl, "limit=50", off, "none", "none">>)
CountKey(bbl) ==
    make_cache_key(BUILDING_VIOLATIONS \o <<"count">>, <<bbl, "none", "none">>)
TimelineKey(bbl) ==
    make_cache_key(BUILDING \o <<"timeline">>, <<bbl, "limit=50">>)

\* get, and on a miss the call of the underlying service followed by set
ReadThrough(key, bbl) ==
    LET hit == CacheGet(c_cache, c_now, key) IN
    /\ c_cache' = IF hit.ret # Null THEN hit.cache
                  ELSE CacheSet(hit.cache, c_now, c_max_size, key,
                                c_data[bbl], MEDIUM)
    /\ c_last' = [op |-> "read", bbl |-> bbl,
                  ret |-> IF hit.ret # Null THEN hit.ret ELSE c_data[bbl]]
    /\ UNCHANGED <<c_max_size, c_now, c_data, c_live>>

InitCachedService ==
    /\ c_cache = <<>>
    /\ c_max_size = DefaultMaxSize
    /\ c_now = 0
    /\ c_data = [b \in BblNames |-> 1]
    /\ c_last = NoOp
    /\ c_live = <<>>
    /\ ExtractIdle
    /\ PipeIdle
    /\ ScoreIdle
    /\ LimiterIdle
    /\ ResolveIdle
    /\ CalcIdle
    /\ TransformIdle

\* the pipeline loads new facts about a building
DataChanged ==
    /\ UNCHANGED notCache
    /\ \E b \in BblNames :
          /\ c_data[b] < MaxDataVersion
          /\ c_data' = [c_data EXCEPT ![b] = @ + 1]
    /\ c_last' = NoOp
    /\ UNCHANGED <<c_cache, c_max_size, c_now, c_live>>

get_building_report ==
    /\ UNCHANGED notCache
    /\ \E b \in BblNames : ReadThrough(ReportKey(b), b)

get_violations ==
    /\ UNCHANGED notCache
    /\ \E b \in BblNames, off \in Offsets : ReadThrough(ViolationsKey(b, off), b)

get_violations_count ==
    /\ UNCHANGED notCache
    /\ \E b \in BblNames : ReadThrough(CountKey(b), b)

get_timeline ==
    /\ UNCHANGED notCache
    /\ \E b \in BblNames : ReadThrough(TimelineKey(b), b)

\* the three clear_pattern calls of invalidate_building_cache
invalidate_building_cache ==
    /\ UNCHANGED notCache
    /\ \E b \in BblNames :
          /\ c_cache' =
                 ClearPattern(
                     ClearPattern(
                         ClearPattern(c_cache, BUILDING \o <<b>>),
                         BUILDING_REPORT \o <<b>>),
                     BUILDING_VIOLATIONS \o <<b>>)
          /\ c_last' = [op |-> "invalidate", bbl |-> b]
    /\ UNCHANGED <<c_max_size, c_now, c_data, c_live>>

NextCachedService ==
    \/ DataChanged
    \/ get_building_report
    \/ get_violations
    \/ get_violations_count
    \/ get_timeline
    \/ invalidate_building_cache

SpecCachedService == InitCachedService /\ [][NextCachedService]_vars

-----------------------------------------------------------------------------
\* RateLimiter: __init__ and acquire, called by one caller at a time.
\* Time is counted in ticks of 1/(rate * Sub) second and tokens in 1/Sub of a
\* token, so that `elapsed * self.rate` tokens are `elapsed` units.

Sub == 2             \* ticks per token period
MaxRate == 3         \* largest configured rate
MaxAcquires == 5     \* acquire calls per behaviour
MaxClock == 14       \* last tick of the clock

\* one second, in ticks
Second == rl_rate * Sub

\* one token, in units
Token == Sub

\* self.tokens = min(self.rate, self.tokens + elapsed * self.rate)
Refill(tokens, elapsed) == Min(rl_rate * Token, tokens + elapsed)

\* wait_time = (1 - self.tokens) / self.rate, in ticks
WaitTime(tokens) == Token - tokens

\* RateLimiter(rate): a full bucket
InitLimiter ==
    /\ rl_rate \in 1..MaxRate
    /\ rl_tokens = rl_rate * Token
    /\ rl_last_refill = 0
    /\ rl_clock = 0
    /\ rl_pc = "idle"
    /\ rl_wake = 0
    /\ rl_times = <<>>
    /\ ExtractIdle
    /\ PipeIdle
    /\ ScoreIdle
    /\ ResolveIdle
    /\ CalcIdle
    /\ TransformIdle
    /\ CacheIdle

\* time passes
Tick ==
    /\ UNCHANGED notLimiter
    /\ rl_clock < MaxClock
    /\ rl_clock' = rl_clock + 1
    /\ UNCHANGED <<rl_rate, rl_tokens, rl_last_refill, rl_pc, rl_wake, rl_times>>

\* acquire up to its return or to the start of asyncio.sleep
Acquire ==
    /\ UNCHANGED notLimiter
    /\ rl_pc = "idle"
    /\ Len(rl_times) < MaxAcquires + 1
    /\ rl_last_refill' = rl_clock
    /\ LET tokens == Refill(rl_tokens, rl_clock - rl_last_refill)
           called == IF rl_times = <<>> THEN <<rl_clock>> ELSE rl_times IN
       IF tokens < Token
       THEN /\ rl_tokens' = tokens
            /\ rl_pc' = "sleeping"
            /\ rl_wake' = rl_clock + WaitTime(tokens)
            /\ rl_times' = called
       ELSE /\ rl_tokens' = tokens - Token
            /\ rl_times' = Append(called, rl_clock)
            /\ UNCHANGED <<rl_pc, rl_wake>>
    /\ UNCHANGED <<rl_rate, rl_clock>>

\* asyncio.sleep(wait_time) is over: self.tokens = 0, acquire returns
Wake ==
    /\ UNCHANGED notLimiter
    /\ rl_pc = "sleeping"
    /\ rl_clock >= rl_wake
    /\ rl_tokens' = 0
    /\ rl_pc' = "idle"
    /\ rl_times' = Append(rl_times, rl_clock)
    /\ UNCHANGED <<rl_rate, rl_last_refill, rl_clock, rl_wake>>

NextLimiter ==
    \/ Tick
    \/ Acquire
    \/ Wake

SpecLimiter == InitLimiter /\ [][NextLimiter]_vars

-----------------------------------------------------------------------------
\* Identity resolution: EntityResolutionService.run_entity_resolution groups
\* the contacts into owner portfolios by their fingerprint.

NumNames == 2        \* distinct normalized names
NumAddresses == 2    \* distinct normalized addresses
MaxContacts == 3     \* contacts in the store
MaxResolutions == 2  \* resolution runs per behaviour

\* _create_hash: the digest of "name|address"; distinct inputs are taken to
\* have distinct digests
CreateHash(normalized_name, normalized_address) ==
    <<normalized_name, normalized_address>>

\* a contact as transform_record leaves it: owner_portfolio_id not set
Contact(n, a) ==
    [normalized_name |-> n, normalized_address |-> a,
     name_hash |-> CreateHash(n, a), owner_portfolio_id |-> Null]

\* the portfolios that carry a fingerprint
FindPortfolioNever(portfolios, h) == {}

FindPortfolio(portfolios, h) ==
    {i \in DOMAIN portfolios : portfolios[i].name_hash = h}

\* the portfolio a contact is assigned to: the one of its fingerprint, or a
\* new one with the next id when the fingerprint was never seen
Assign(portfolios, h) ==
    IF FindPortfolio(portfolios, h) # {}
    THEN portfolios
    ELSE Append(portfolios, [id |-> Len(portfolios) + 1, name_hash |-> h])

PortfolioOf(portfolios, h) ==
    LET i == CHOOSE i \in DOMAIN portfolios : portfolios[i].name_hash = h
    IN portfolios[i].id

Assignments == [i \in DOMAIN er_contacts |-> er_contacts[i].owner_portfolio_id]

InitResolve ==
    /\ \E n \in 1..MaxContacts :
          er_contacts \in [1..n -> {Contact(nm, ad) : nm \in 1..NumNames,
                                                      ad \in 1..NumAddresses}]
    /\ er_portfolios = <<>>
    /\ er_pc = "idle"
    /\ er_cursor = 0
    /\ er_runs = 0
    /\ er_prev = <<>>
    /\ er_dirty = TRUE
    /\ ExtractIdle
    /\ PipeIdle
    /\ ScoreIdle
    /\ LimiterIdle
    /\ CalcIdle
    /\ TransformIdle
    /\ CacheIdle

\* the contacts extractor loads one more contact
ContactLoaded ==
    /\ UNCHANGED notResolve
    /\ er_pc \in {"idle", "done"}
    /\ Len(er_contacts) < MaxContacts
    /\ \E nm \in 1..NumNames, ad \in 1..NumAddresses :
          er_contacts' = Append(er_contacts, Contact(nm, ad))
    /\ er_dirty' = TRUE
    /\ er_pc' = "idle"
    /\ UNCHANGED <<er_portfolios, er_cursor, er_runs, er_prev>>

\* run_entity_resolution is called
BeginResolution ==
    /\ UNCHANGED notResolve
    /\ er_pc \in {"idle", "done"}
    /\ er_runs < MaxResolutions
    /\ er_pc' = "running"
    /\ er_cursor' = 0
    /\ UNCHANGED <<er_contacts, er_portfolios, er_runs, er_prev, er_dirty>>

\* the next contact is assigned to the portfolio of its fingerprint
ResolveContact ==
    /\ UNCHANGED notResolve
    /\ er_pc = "running"
    /\ er_cursor < Len(er_contacts)
    /\ LET c == er_contacts[er_cursor + 1]
           portfolios == Assign(er_portfolios, c.name_hash) IN
       /\ er_portfolios' = portfolios
       /\ er_contacts' = [er_contacts EXCEPT ![er_cursor + 1].owner_portfolio_id
                             = PortfolioOf(portfolios, c.name_hash)]
    /\ er_cursor' = er_cursor + 1
    /\ UNCHANGED <<er_pc, er_runs, er_prev, er_dirty>>

\* every contact is handled: the run commits and returns
EndResolution ==
    /\ UNCHANGED notResolve
    /\ er_pc = "running"
    /\ er_cursor = Len(er_contacts)
    /\ er_pc' = "done"
    /\ er_runs' = er_runs + 1
    /\ er_prev' = IF er_runs = 0 \/ er_dirty THEN Assignments ELSE er_prev
    /\ er_dirty' = FALSE
    /\ UNCHANGED <<er_contacts, er_portfolios, er_cursor>>

NextResolve ==
    \/ ContactLoaded
    \/ BeginResolution
    \/ ResolveContact
    \/ EndResolution

SpecResolve == InitResolve /\ [][NextResolve]_vars

-----------------------------------------------------------------------------
\* Properties of identity resolution

\* C13: after a resolution run every contact has a portfolio, two contacts
\* with the same fingerprint have the same portfolio, every portfolio has a
\* fingerprint of its own, and a run over unchanged contacts leaves every
\* contact with the portfolio it had.
C13_OnePortfolioPerFingerprint ==
    er_pc = "done" =>
        /\ \A i \in DOMAIN er_contacts :
              \E p \in DOMAIN er_portfolios :
                 /\ er_portfolios[p].id = er_contacts[i].owner_portfolio_id
                 /\ er_portfolios[p].name_hash = er_contacts[i].name_hash
        /\ \A i, j \in DOMAIN er_contacts :
              er_contacts[i].name_hash = er_contacts[j].name_hash
                  => er_contacts[i].owner_portfolio_id
                         = er_contacts[j].owner_portfolio_id
        /\ \A p, q \in DOMAIN er_portfolios :
              (er_portfolios[p].name_hash = er_portfolios[q].name_hash
                  \/ er_portfolios[p].id = er_portfolios[q].id) => p = q
        /\ ~er_dirty => Assignments = er_prev

C13_Witness ==
    /\ er_pc = "done"
    /\ er_runs = 2
    /\ Len(er_portfolios) = 2
    /\ Len(er_contacts) = 3
    /\ Assignments = er_prev

-----------------------------------------------------------------------------
\* Properties of the rate limiter

\* C11: the return of the (rate + 1)-th acquire of a limiter that started
\* with a full bucket comes at least one second after the first call.
C11_DrainTakesASecond ==
    Len(rl_times) >= rl_rate + 2 =>
        rl_times[rl_rate + 2] - rl_times[1] >= Second

-----------------------------------------------------------------------------
\* Properties of a scoring run

\* the result of a whole scoring pass over the facts as they are
NewScores ==
    WithPercentiles(ScoreRows(links, owner_portfolios, buildings), buildings)

Running == s_pc \notin {"idle", "done", "failed"}

Range(q) == {q[i] : i \in DOMAIN q}

\* C1: whatever a reader sees in the committed building_scores while a
\* scoring run is in progress is the complete result of the previous run or
\* the complete result of the new one.
C1_NoHalfWrittenPass ==
    Running => \/ building_scores = good_scores
               \/ building_scores = NewScores

\* C2: when compute_all_scores has failed, the committed building scores and
\* portfolio scores are those of the last successful run.
C2_FailureKeepsLastRun ==
    s_pc = "failed" =>
        /\ building_scores = good_scores
        /\ \A p \in Portfolios :
              /\ owner_portfolios[p].portfolio_score
                     = good_portfolios[p].portfolio_score
              /\ owner_portfolios[p].portfolio_grade
                     = good_portfolios[p].portfolio_grade

\* C14: after a scoring run, of two scored buildings the one with the
\* strictly higher overall score has a citywide percentile greater than or
\* equal to the other's.
C14_PercentileMonotone ==
    s_pc = "done" =>
        \A a, b \in Bbls :
            (building_scores[a].present /\ building_scores[b].present
               /\ building_scores[a].overall_score
                      > building_scores[b].overall_score)
            => building_scores[a].percentile_city
                   >= building_scores[b].percentile_city

\* C16: within a scoring run the portfolios are scored only once the new
\* building scores, percentiles included, are committed, and the step before
\* it is the refresh of the portfolio statistics.
C16_PortfolioScoringLast ==
    /\ s_pc = "portfolio_scores" => building_scores = NewScores
    /\ (s_pc = "portfolio_scores" \/ "portfolio_scores" \in Range(s_steps)) =>
          \E i, j, k \in DOMAIN s_steps :
              /\ s_steps[i] = "percentiles"
              /\ s_steps[j] = "commit"
              /\ s_steps[k] = "portfolio_stats"
              /\ i < j /\ j < k
              /\ \A n \in DOMAIN s_steps :
                     s_steps[n] = "portfolio_scores" => k < n

C16_Witness ==
    /\ s_pc = "portfolio_scores"
    /\ s_passes = 2
    /\ building_scores = NewScores
    /\ building_scores # good_scores

\* the buildings linked to a portfolio, each once
LinkedBuildings(p) == {links[i].bbl : i \in {j \in DOMAIN links : links[j].pid = p}}

\* C15: after a scoring run the score of every portfolio with a linked
\* building is the mean of overall_score over its linked buildings, each
\* building counted once.
C15_PortfolioMean ==
    s_pc = "done" =>
        \A p \in Portfolios :
            LinkedBuildings(p) # {} =>
                owner_portfolios[p].portfolio_score
                    = (SumOver([b \in Bbls |-> building_scores[b].overall_score],
                               LinkedBuildings(p)) * (Scale \div 100))
                          \div Cardinality(LinkedBuildings(p))

-----------------------------------------------------------------------------
\* Properties of the pipeline

\* the stages of the stated dependency order
LoadStages == {"buildings", "hpd_registrations", "registration_contacts"}
FactStages == {"hpd_violations", "dob_violations", "complaints_311",
               "evictions", "pluto"}
AllStages == LoadStages \cup FactStages \cup {"entity_resolution", "scoring"}

\* the stages that precede a stage in the stated order
Before(stage) ==
    CASE stage = "buildings" -> {}
      [] stage = "hpd_registrations" -> {"buildings"}
      [] stage = "registration_contacts" -> {"buildings", "hpd_registrations"}
      [] stage \in FactStages -> LoadStages
      [] stage = "entity_resolution" -> LoadStages \cup FactStages
      [] stage = "scoring" -> AllStages \ {"scoring"}

\* C3: a full pipeline run runs every stage of the dependency order, parcel
\* enrichment included, and starts no stage before the stages that precede
\* it have completed.
C3_DependencyOrder ==
    /\ \A i \in DOMAIN p_log :
          p_log[i].ev = "start" =>
              \A q \in Before(p_log[i].stage) :
                  \E j \in 1..(i - 1) : p_log[j] = Ended(q)
    /\ (p_entry = "nightly_refresh" /\ p_pc = "done") =>
          \A st \in AllStages : \E i \in DOMAIN p_log : p_log[i] = Ended(st)

\* C4: once an extractor has raised nothing else is started, the caller
\* receives the error, and the tables of the stages that had completed are
\* as those stages committed them.
C4_AbortOnFailure ==
    \A i \in DOMAIN p_log :
        (p_log[i].ev = "raise" /\ p_log[i].stage \in EXTRACTORS) =>
            /\ i = Len(p_log)
            /\ p_pc = "failed"
            /\ p_error = p_log[i].stage
            /\ p_log[i].stage = LOAD_ORDER[p_idx]
            /\ \A n \in DOMAIN p_log :
                  p_log[n].ev = "start" =>
                      \E j \in 1..p_idx : p_log[n].stage = LOAD_ORDER[j]
            /\ \A j \in 1..(p_idx - 1) :
                  /\ \E n \in DOMAIN p_log : p_log[n] = Ended(LOAD_ORDER[j])
                  /\ p_store[LOAD_ORDER[j]] = p_at_end[LOAD_ORDER[j]]

C4_Witness ==
    /\ p_entry = "nightly_refresh"
    /\ p_pc = "failed"
    /\ p_error = "hpd_violations"
    /\ p_store["hpd_violations"] > p_at_end["hpd_violations"]
    /\ p_store["buildings"] > 1

-----------------------------------------------------------------------------
\* Properties of one extractor

\* what fetch_all has to yield: the records from start_offset on
Stream ==
    IF start_offset >= Len(dataset) THEN <<>>
    ELSE SubSeq(dataset, start_offset + 1, Len(dataset))

\* the j-th batch yielded by fetch_batch
FetchedBatch(j) ==
    SubSeq(Stream, (j - 1) * BatchSize + 1, Min(j * BatchSize, Len(Stream)))

\* the table after the loop body has handled the fetched batches j..k
RECURSIVE ApplyBatches(_, _, _, _)
ApplyBatches(table, seq, j, k) ==
    IF j > k THEN table
    ELSE LET transformed == TransformBatch(FetchedBatch(j)) IN
         IF transformed = <<>> THEN ApplyBatches(table, seq, j + 1, k)
         ELSE ApplyBatches(UpsertBatch(kind, table, transformed, seq, now),
                           SeqAfter(kind, seq, Len(Dedup(transformed))),
                           j + 1, k)

\* the table a run leaves when exactly its first k batches are committed
AfterPrefix(k) ==
    ApplyBatches(IF full_refresh THEN EmptyTable ELSE run_start,
                 run_start_seq, 1, k)

\* the positions in which the session of the run has been rolled back
Aborted == {"failed", "cancelled", "cancelled_mid_batch"}

DupKeys(rs) ==
    {k \in Keys : Cardinality({i \in DOMAIN rs : rs[i].key = k}) >= 2}

LastOf(rs, k) ==
    rs[CHOOSE i \in DOMAIN rs :
          rs[i].key = k /\ \A j \in DOMAIN rs : j > i => rs[j].key # k]

Coalesce(a, b) == IF a # Null THEN a ELSE b

\* C5: running the same extractor twice in incremental mode over the same
\* source leaves the table as it was after the first run.
C5_IdempotentRerun ==
    (pc = "done" /\ runs = 2 /\ modes = <<FALSE, FALSE>>)
        => committed = snapshot

\* C6 (as claimed): after the upsert of a batch in which a key occurs twice or
\* more, the table holds a row for that key and the row carries the values of
\* the last record with that key.
C6_OneRowLastWins ==
    (last_batch # <<>> /\ pc \notin Aborted) =>
        \A k \in DupKeys(last_batch) :
            /\ session[k].present
            /\ session[k].f1 = LastOf(last_batch, k).f1
            /\ session[k].f2 = LastOf(last_batch, k).f2

\* C6 (amended): of the records of a batch that share a key exactly one, the
\* last in fetch order, survives deduplication. The shared upsert leaves a row
\* for that key carrying that record's values. Parcel enrichment leaves a row
\* for the key only if there was one before, and that row carries the
\* record's non-null values and keeps the stored value of every field that
\* is null in the record.
C6_LastSurvives ==
    (last_batch # <<>> /\ pc \notin Aborted) =>
        \A k \in DupKeys(last_batch) :
            LET last == LastOf(last_batch, k)
                kept == {i \in DOMAIN Dedup(last_batch) :
                            Dedup(last_batch)[i].key = k} IN
            /\ Cardinality(kept) = 1
            /\ \A i \in kept : Dedup(last_batch)[i] = last
            /\ kind \in {"pk", "natural"} =>
                  /\ session[k].present
                  /\ session[k].f1 = last.f1
                  /\ session[k].f2 = last.f2
            /\ kind = "enrich" =>
                  /\ session[k].present = pre_upsert[k].present
                  /\ session[k].present =>
                        /\ session[k].f1 = Coalesce(last.f1, pre_upsert[k].f1)
                        /\ session[k].f2 = Coalesce(last.f2, pre_upsert[k].f2)

C6_Witness ==
    /\ pc = "fetch"
    /\ kind = "natural"
    /\ \E k \in DupKeys(last_batch) :
          session[k].present /\ pre_upsert[k].present

\* C7: the committed table is always the run's starting table or the result
\* of applying a prefix of the fetched batches, whole and in fetch order, and
\* after a failure it is exactly what the last successful commit left.
C7_CommittedPrefix ==
    /\ \/ committed = run_start
       \/ \E k \in 0..n_processed : committed = AfterPrefix(k)
    /\ pc = "failed" =>
          committed = IF n_committed = 0 THEN run_start
                      ELSE AfterPrefix(n_committed)

C7_Witness ==
    /\ pc = "failed"
    /\ n_committed > 0
    /\ n_processed > n_committed
    /\ committed # run_start

\* C8: a commit follows every commit_interval-th upserted batch and no other
\* batch, never more than commit_interval upserted batches are uncommitted,
\* and a run that completes has committed every upserted batch.
C8_CommitCadence ==
    /\ uncommitted <= commit_interval
    /\ pc \in {"fetch", "process", "final_commit"} =>
          uncommitted = batch_count % commit_interval
    /\ pc = "commit" => uncommitted = commit_interval
    /\ pc = "done" =>
          /\ uncommitted = 0
          /\ n_committed = n_processed
          /\ committed = session

C8_Witness ==
    /\ pc = "done"
    /\ batch_count > commit_interval
    /\ committed = AfterPrefix(n_processed)

\* C9: over a static source, fetch_all requests the pages at start_offset,
\* start_offset + PageSize, ... one after the other, stops after the first
\* page that is short or empty, and yields the records from start_offset on,
\* each once and in source order.
C9_FetchAll ==
    /\ \A i \in DOMAIN fetched : fetched[i] = start_offset + (i - 1) * PageSize
    /\ \A i \in DOMAIN fetched :
          i < Len(fetched) => Len(Page(fetched[i])) = PageSize
    /\ Len(yielded) <= Len(Stream)
    /\ yielded = SubSeq(Stream, 1, Len(yielded))
    /\ f_pc = "finished" =>
          /\ yielded = Stream
          /\ Len(Page(fetched[Len(fetched)])) < PageSize

C9_Witness ==
    /\ f_pc = "finished"
    /\ start_offset > 0
    /\ Len(fetched) >= 3
    /\ Len(Page(fetched[Len(fetched)])) > 0

\* C10: a page request is attempted at most MaxAttempts times, another
\* attempt follows only a transient failure, a malformed response or the
\* failure of the last attempt ends the run with the error, and no page
\* that was fetched is requested again.
C10_RetryPolicy ==
    /\ attempts <= MaxAttempts
    /\ (f_pc = "request" /\ attempts >= 1) => last_outcome = "transient"
    /\ last_outcome = "malformed" => f_pc = "error"
    /\ f_pc = "error" =>
          /\ pc = "failed"
          /\ \/ last_outcome = "malformed"
             \/ last_outcome = "transient" /\ attempts = MaxAttempts
    /\ \A i, j \in DOMAIN fetched : i < j => fetched[i] < fetched[j]
    /\ f_pc = "request" => \A i \in DOMAIN fetched : fetched[i] < offset

C10_Witness ==
    /\ f_pc = "error"
    /\ last_outcome = "transient"
    /\ attempts = MaxAttempts
    /\ Len(fetched) >= 1

-----------------------------------------------------------------------------
\* Properties of a cancelled extractor

\* C12: a cancelled run never stops while a batch is being upserted, and the
\* committed table it leaves holds whole batches only.
C12_StopsBetweenBatches ==
    /\ pc # "cancelled_mid_batch"
    /\ pc = "cancelled" =>
          \/ committed = run_start
          \/ \E k \in 0..n_processed :
                 committed = AfterPrefix(k)

\* C17: for every score from 0 to 100 the building grade, the portfolio
\* grade and the grade of _score_to_grade are the letter of the half-open
\* band of 20 points the score lies in, A for [0,20), B for [20,40),
\* C for [40,60), D for [60,80) and F for [80,100]: exactly 20 is B and
\* exactly 80 is F.
Band(x) == <<"A", "B", "C", "D", "F">>[Min(x \div (20 * Scale), 4) + 1]

C17_HalfOpenGrades ==
    calc_grades # <<>> =>
        /\ calc_grades.building = Band(calc_score)
        /\ calc_grades.portfolio = Band(calc_score)
        /\ calc_grades.legacy = Band(calc_score)
        /\ calc_score = 20 * Scale => calc_grades.building = "B"
        /\ calc_score = 80 * Scale => calc_grades.building = "F"

C17_Witness ==
    /\ calc_grades # <<>>
    /\ calc_score = 20 * Scale
    /\ calc_grades.building = "B"
    /\ calc_grades.portfolio = "B"

\* C18 as stated: a building with 100 class C violations and one unit has
\* its violation component at the cap of 100, its overall score at the cap
\* of 100 and grade F.
HundredInOneUnit ==
    /\ calc_row # <<>>
    /\ calc_building.class_c = 100
    /\ Units(calc_building) = 1

C18_MaxedOut ==
    HundredInOneUnit =>
        /\ calc_row.violation_score = 100 * Scale
        /\ calc_row.overall_score = 100 * Scale
        /\ calc_row.grade = "F"

\* C18 amended: such a building has its violation component at the cap of
\* 100, which contributes 30 points to the overall score; the overall score
\* lies between 30 and 100 and the grade is never A; with no complaint, no
\* eviction, no LLC owner and no slow resolution the overall score is
\* exactly 30 and the grade is B.
C18_ViolationCapOnly ==
    HundredInOneUnit =>
        /\ calc_row.violation_score = 100 * Scale
        /\ calc_row.overall_score >= 30 * Scale
        /\ calc_row.overall_score <= 100 * Scale
        /\ calc_row.grade # "A"
        /\ (/\ calc_building.total_complaints = 0
            /\ calc_building.total_evictions = 0
            /\ calc_llc = 0
            /\ calc_building.avg_resolution_days \in {Null, 30})
               => calc_row.overall_score = 30 * Scale /\ calc_row.grade = "B"

C18_Witness ==
    /\ HundredInOneUnit
    /\ calc_building.total_units = 1
    /\ calc_building.total_complaints = 0
    /\ calc_building.total_evictions = 0
    /\ calc_llc = 0
    /\ calc_row.violation_score = 100 * Scale
    /\ calc_row.overall_score = 30 * Scale
    /\ calc_row.grade = "B"

\* C19 as stated: parcel enrichment never inserts a building. After the
\* enrichment of a batch, a key that had no row has none, a row whose key is
\* in the batch differs from what it was only in the enrichment fields for
\* which the last record of that key carries a value, and every other row is
\* what it was.
InBatch(k) == \E i \in DOMAIN last_batch : last_batch[i].key = k

Enriched == kind = "enrich" /\ last_batch # <<>> /\ pc \notin Aborted

C19_EnrichOnlyFills ==
    Enriched =>
        \A k \in Keys :
            IF pre_upsert[k].present /\ InBatch(k)
            THEN session[k] =
                     [pre_upsert[k] EXCEPT
                         !.f1 = Coalesce(LastOf(last_batch, k).f1, @),
                         !.f2 = Coalesce(LastOf(last_batch, k).f2, @)]
            ELSE session[k] = pre_upsert[k]

\* C19 amended: as above, except that the row of a key in the batch also gets
\* the time of the enrichment as its updated_at.
C19_EnrichFillsAndStamps ==
    Enriched =>
        \A k \in Keys :
            IF pre_upsert[k].present /\ InBatch(k)
            THEN session[k] =
                     [pre_upsert[k] EXCEPT
                         !.f1 = Coalesce(LastOf(last_batch, k).f1, @),
                         !.f2 = Coalesce(LastOf(last_batch, k).f2, @),
                         !.ts = now]
            ELSE session[k] = pre_upsert[k]

C19_Witness ==
    /\ Enriched
    /\ \E k \in Keys :
          /\ InBatch(k)
          /\ ~pre_upsert[k].present
          /\ ~session[k].present
    /\ \E k \in Keys :
          /\ InBatch(k)
          /\ pre_upsert[k].present
          /\ session[k].f1 = LastOf(last_batch, k).f1
          /\ session[k].f1 # pre_upsert[k].f1
          /\ session[k].id = pre_upsert[k].id

\* C20 as stated: a violation, complaint or eviction record with a valid
\* source identifier and a BBL that cannot be resolved ends up stored with a
\* null BBL, and a registration record whose BBL cannot be resolved is
\* skipped.
ValidId(ex, r) ==
    IF ex \in {"hpd_violations", "hpd_registrations", "complaints_311"}
    THEN r.id \in Numerals /\ r.id # "0"
    ELSE r.id \notin {"none", ""}

Unresolvable(ex, r) ==
    IF ex \in {"complaints_311", "evictions"}
    THEN r.bbl \in {"none", ""}
    ELSE \E v \in {r.boro, r.block, r.lot} : v \notin Numerals

Handled == tr_pc \in {"stored", "skipped"}

StoredWithNullBbl ==
    /\ tr_pc = "stored"
    /\ \E row \in tr_table : row.bbl = <<>>
    /\ \A row \in tr_table : row.bbl = <<>>

Skipped == tr_pc = "skipped" /\ tr_table = {}

KeyResolvable(ex, r) ==
    CASE ex \in {"hpd_violations", "hpd_registrations", "complaints_311"} ->
           r.id \in Numerals /\ r.id # "0"
      [] ex = "registration_contacts" ->
           /\ r.id \in Numerals /\ r.id # "0"
           /\ r.type \notin {"none", ""}
           /\ r.name \notin {"none", ""}
      [] OTHER -> r.id \notin {"none", ""}

C21_KeylessSkipped ==
    (tr_pc # "raw" /\ ~KeyResolvable(tr_extractor, tr_record)) =>
        /\ tr_result = <<>>
        /\ tr_pc = "skipped"
        /\ tr_table = {}

C24_SizeBounded == Len(c_cache) <= c_max_size

\* C25: a get of a key whose last set was undone by no later set, delete,
\* clear or eviction returns the value of that set when less than ttl
\* seconds have passed since it, and returns None and leaves no entry for
\* the key when more than ttl seconds have passed.
C25_TtlHonoured ==
    (c_last.op = "get" /\ c_live[c_last.key] # NoLive) =>
        LET live == c_live[c_last.key] IN
        /\ c_now < live.set_at + live.ttl => c_last.ret = live.value
        /\ c_now > live.set_at + live.ttl =>
               c_last.ret = Null /\ c_last.key \notin KeysOf(c_cache)

C25_Witness ==
    /\ c_last.op = "get"
    /\ c_live[c_last.key] # NoLive
    /\ c_now > c_live[c_last.key].set_at + c_live[c_last.key].ttl
    /\ c_last.ret = Null
    /\ Len(c_cache) >= 1

\* C23: right after invalidate_building_cache(bbl) the cache holds no entry
\* that CachedBuildingService created for that building: no report, no page
\* of violations, no violation count and no timeline.
C23_InvalidateClearsBuilding ==
    c_last.op = "invalidate" =>
        \A i \in DOMAIN c_cache : c_last.bbl \notin Range(c_cache[i].key)

\* C26: the acquisitions completed within any interval of time are at most
\* the capacity of the bucket plus what the rate refills over the length of
\* the interval: every completed acquisition took a whole token that had
\* accrued.
C26_NoOverIssue ==
    \A i, j \in 2..Len(rl_times) :
        i <= j =>
            (j - i + 1) * Token <= rl_rate * Token + (rl_times[j] - rl_times[i])

\* C27: the upsert of a batch by an incremental run of an extractor of the
\* shared upsert leaves, on every row that existed before, the columns the
\* transform does not supply as they were: a contact keeps its
\* owner_portfolio_id, a building keeps its parcel fields.
C27_UnsuppliedKept ==
    (/\ kind \in {"pk", "natural"}
     /\ ~full_refresh
     /\ last_batch # <<>>
     /\ pc \notin Aborted) =>
        \A k \in Keys :
            pre_upsert[k].present => session[k].other = pre_upsert[k].other

C29_NoLeftoverScore ==
    s_pc = "done" =>
        \A p \in Portfolios :
            JoinRows(links, building_scores, p) = {} =>
                /\ owner_portfolios[p].portfolio_score = Unset
                /\ owner_portfolios[p].portfolio_grade = ""

\* C30: the grade stored in a building_scores row is the grade mapping
\* applied to the overall_score stored in that row, the score rounded to two
\* decimals.
C30_GradeOfStoredScore ==
    calc_row # <<>> =>
        calc_row.stored.grade
            = Grade(calc_row.stored.overall_score * (Scale \div 100))

====
